---- MODULE Spec2Model ----
(***************************************************************************)
(* A model of the record pipeline of sf-insurance-scraper:                 *)
(*   - InsuranceCompany.dedup_key and deduplicate   (src/scraper.py)       *)
(*   - enrich_from_websites                         (src/scraper.py)       *)
(*   - phase 2 of enrich_sf.main, with extract_emails and                  *)
(*     scrape_website_for_email                     (src/enrich_sf.py)     *)
(*                                                                         *)
(* Python strings are modelled as sequences of one-character strings, so   *)
(* that lower(), re.sub, `in` (substring), startswith, slicing and         *)
(* concatenation are computed as the code computes them.  The empty        *)
(* string is << >>, which is also Python's only falsy str.                 *)
(***************************************************************************)
EXTENDS Integers, Sequences, FiniteSets, TLC

VARIABLES
    prog,        \* which program runs: "dedup", "scraper", "enrich_sf", "main", ...
    \* ---- deduplicate (src/scraper.py:756-777)
    results,     \* the list passed to deduplicate; its objects are mutated in place
    input,       \* history: the field values of `results` when deduplicate was called
    seen,        \* the dict `seen`, as the indexes into `results` of its values, in insertion order
    di,          \* position of the `for company in results` loop
    unique,      \* the returned list
    dpc,         \* "loop" | "done"
    \* ---- enrich_from_websites (src/scraper.py:695-749)
    companies,   \* the list passed to enrich_from_websites; mutated in place
    before,      \* history: the field values of `companies` at the call
    ei,          \* position of the `for i, company in enumerate(companies)` loop
    enriched,    \* the counter `enriched`
    fetched,     \* history: indexes of the companies whose website was requested, in order
    outcome,     \* history: the response to the request of each index (NoResponse while not requested)
    slept,       \* history: polite_sleep(1, 3) ran since the last request
    epc,         \* "loop" | "done"
    \* ---- enrich_sf.main, phase 2 (src/enrich_sf.py:226-247)
    all_rows,    \* the rows to check (sites_to_check), mutated in place
    rows_before, \* history: the rows when phase 2 started
    ri,          \* position of the `for count, idx in enumerate(sites_to_check)` loop
    found_emails,\* the counter `found_emails`
    requests,    \* history: number of HTTP GETs issued for each row
    \* ---- main (src/scraper.py:844-890)
    argv,        \* sys.argv[1:], the identifiers given on the command line
    mpc,         \* the statement of main that runs next; "raised" after an uncaught exception
    ran,         \* history: the connectors and stages that were called, in call order
    all_results, \* the list `all_results` every connector appends to
    main_unique, \* the list `unique` of main (named apart from deduplicate's own)
    enrich_arg,  \* history: the list handed to enrich_from_websites
    saved,       \* history: the list handed to save_results
    \* ---- _parse_yelp_html (src/scraper.py:327-421)
    ld_tags,     \* the <script type="application/ld+json"> tags of the page, as indexes into LdPool
    nd_tag,      \* the <script id="__NEXT_DATA__"> tag of the page, as an index into NdPool
    ti,          \* position of the `for tag in soup.find_all(...)` loop
    parsed,      \* the list `companies` of _parse_yelp_html, each record by its name
    origin,      \* history: the strategy ("a" or "b") that appended each record of `parsed`
    s2_run,      \* history: strategy 2 (lines 384-419) was reached
    ypc,         \* "strategy1" | "returned" | "raised"
    yexc,        \* the exception that left _parse_yelp_html, "none" if none
    \* ---- scrape_google_maps (src/scraper.py:184-320)
    gi,          \* position of the `for region in GMAPS_REGIONS` loop
    qi,          \* position of the `for query in queries` loop
    gpc,         \* "query" | "scroll" | "extract" | "done"
    feed_items,  \* the number of items the results feed shows (what .count() returns)
    scroll_attempt, \* the loop variable of `for scroll_attempt in range(12)`
    prev_count,  \* the variable `prev_count`
    grew,        \* history: the last scroll changed the count (current_count # prev_count)
    attempts,    \* history: the (region, query) pairs whose search was started, in order
    gm_outcomes, \* history: how the search of each started pair ended
    gm_results,  \* the list `results` scrape_google_maps appends to
    \* ---- scrape_cdi_pdf (src/scraper.py:616-688)
    pdf_pages,   \* the pages of the downloaded document, as indexes into PagePool
    lines,       \* the list `lines` (all_text.split("\n"))
    li,          \* position of the `for line in lines` loop
    cdi_results, \* the list `results` scrape_cdi_pdf appends to
    cpc,         \* "download" | "lines" | "done"
    \* ---- extract_emails (src/enrich_sf.py:39-60)
    html_tokens, \* the argument `html`, as indexes into TextPool of the pieces it is made of
    em_raw,      \* the list `raw` (the matches of re.findall)
    em_filtered, \* the list `filtered`
    em_seen,     \* the set `seen` of extract_emails
    em_result,   \* the list `result`
    xi,          \* position of the loop that runs
    xpc,         \* "call" | "filter" | "dedupe" | "returned"
    calls,       \* history: the number of calls that returned
    first_result, \* history: what the first call returned
    \* ---- scrape_website_for_email (src/enrich_sf.py:63-93)
    sw_website, \* the argument `website`
    sw_base,    \* the variable `base`: scheme and host of resp.url
    sw_gets,    \* history: the URL and the response of each requests.get, in call order
    sw_i,       \* position of the `for suffix in [...]` loop
    sw_pc,      \* "call" | "suffixes" | "returned"
    sw_email,   \* the returned string
    \* ---- one map listing and one registry line, from the page to deduplicate (src/scraper.py:250-307, 676-683, 756-777; src/test_gmaps.py:21-27)
    lst_item,    \* the listing (`item`), as an index into ListingPool
    lst_region,  \* the region of the search (`region`), as an index into GMAPS_REGIONS
    reg_line,    \* the registry line, as an index into RegistryLines
    lj,          \* position of the `for (const line of lines)` loop
    js_address,  \* the JavaScript variable `address`
    js_category, \* the JavaScript variable `category`
    jpc,         \* "lines" | "pushed" | "listed" | "registered" | "done"
    lst_results, \* the list the two connectors append to
    lst_unique,  \* the list deduplicate returns for it
    \* ---- InsuranceCompany.dedup_key on two records (src/scraper.py:56-61)
    rec_a, \* the first record
    rec_b, \* the second record
    key_a, \* the dedup_key of the first record, once computed
    key_b, \* the dedup_key of the second record, once computed
    kpc    \* "first" | "second" | "done"

vars == <<prog, results, input, seen, di, unique, dpc,
          companies, before, ei, enriched, fetched, outcome, slept, epc,
          all_rows, rows_before, ri, found_emails, requests,
          argv, mpc, ran, all_results, main_unique, enrich_arg, saved,
          ld_tags, nd_tag, ti, parsed, origin, s2_run, ypc, yexc,
          gi, qi, gpc, feed_items, scroll_attempt, prev_count, grew,
          attempts, gm_outcomes, gm_results,
          pdf_pages, lines, li, cdi_results, cpc,
          html_tokens, em_raw, em_filtered, em_seen, em_result, xi, xpc, calls,
          first_result,
          sw_website, sw_base, sw_gets, sw_i, sw_pc, sw_email,
          lst_item, lst_region, reg_line, lj, js_address, js_category, jpc, lst_results, lst_unique,
          rec_a, rec_b, key_a, key_b, kpc>>

dedupVars  == <<results, input, seen, di, unique, dpc>>
enrichVars == <<companies, before, ei, enriched, fetched, outcome, slept, epc>>
sfVars     == <<all_rows, rows_before, ri, found_emails, requests>>
mainVars   == <<argv, mpc, ran, all_results, main_unique, enrich_arg, saved>>

yelpVars   == <<ld_tags, nd_tag, ti, parsed, origin, s2_run, ypc, yexc>>

gmapsVars  == <<gi, qi, gpc, feed_items, scroll_attempt, prev_count, grew,
                attempts, gm_outcomes, gm_results>>

cdiVars    == <<pdf_pages, lines, li, cdi_results, cpc>>

extractVars == <<html_tokens, em_raw, em_filtered, em_seen, em_result, xi, xpc,
                 calls, first_result>>

contactVars == <<sw_website, sw_base, sw_gets, sw_i, sw_pc, sw_email>>

listingVars == <<lst_item, lst_region, reg_line, lj, js_address, js_category, jpc, lst_results, lst_unique>>

keyVars == <<rec_a, rec_b, key_a, key_b, kpc>>

pipelineVars == <<dedupVars, enrichVars, sfVars>>

\* the variables of the programs other than the record pipeline, and of the
\* programs other than each of them
restVars     == <<mainVars, yelpVars, gmapsVars, cdiVars, extractVars, contactVars, listingVars, keyVars>>
notMainVars  == <<pipelineVars, yelpVars, gmapsVars, cdiVars, extractVars, contactVars, listingVars, keyVars>>
notYelpVars  == <<pipelineVars, mainVars, gmapsVars, cdiVars, extractVars, contactVars, listingVars, keyVars>>
notGmapsVars == <<pipelineVars, mainVars, yelpVars, cdiVars, extractVars, contactVars, listingVars, keyVars>>
notCdiVars   == <<pipelineVars, mainVars, yelpVars, gmapsVars, extractVars, contactVars, listingVars, keyVars>>
notExtractVars == <<pipelineVars, mainVars, yelpVars, gmapsVars, cdiVars, contactVars, listingVars, keyVars>>
notContactVars == <<pipelineVars, mainVars, yelpVars, gmapsVars, cdiVars, extractVars, listingVars, keyVars>>
notListingVars == <<pipelineVars, mainVars, yelpVars, gmapsVars, cdiVars, extractVars, contactVars, keyVars>>
notKeyVars == <<pipelineVars, mainVars, yelpVars, gmapsVars, cdiVars, extractVars, contactVars, listingVars>>

MainIdle ==
    /\ argv = << >> /\ mpc = "idle" /\ ran = << >> /\ all_results = << >>
    /\ main_unique = << >> /\ enrich_arg = << >> /\ saved = << >>

YelpIdle ==
    /\ ld_tags = << >> /\ nd_tag = 0 /\ ti = 1 /\ parsed = << >> /\ origin = << >>
    /\ s2_run = FALSE /\ ypc = "idle" /\ yexc = "none"

GmapsIdle ==
    /\ gi = 1 /\ qi = 1 /\ gpc = "idle" /\ feed_items = 0 /\ scroll_attempt = 0
    /\ prev_count = 0 /\ grew = FALSE /\ attempts = << >> /\ gm_outcomes = << >>
    /\ gm_results = << >>

CdiIdle ==
    /\ pdf_pages = << >> /\ lines = << >> /\ li = 1 /\ cdi_results = << >>
    /\ cpc = "idle"

ExtractIdle ==
    /\ html_tokens = << >> /\ em_raw = << >> /\ em_filtered = << >> /\ em_seen = {}
    /\ em_result = << >> /\ xi = 1 /\ xpc = "idle" /\ calls = 0 /\ first_result = << >>

ContactIdle ==
    /\ sw_website = << >> /\ sw_base = << >> /\ sw_gets = << >> /\ sw_i = 1 /\ sw_pc = "idle" /\ sw_email = << >>

ListingIdle ==
    /\ lst_item = 1 /\ lst_region = 1 /\ reg_line = 1 /\ lj = 1 /\ js_address = << >> /\ js_category = << >> /\ jpc = "idle" /\ lst_results = << >> /\ lst_unique = << >>

KeyIdle ==
    /\ rec_a = << >> /\ rec_b = << >> /\ key_a = << >> /\ key_b = << >> /\ kpc = "idle"

RestIdle == MainIdle /\ YelpIdle /\ GmapsIdle /\ CdiIdle /\ ExtractIdle /\ ContactIdle /\ ListingIdle /\ KeyIdle

(***************************************************************************)
(* Bounds of the model.                                                    *)
(***************************************************************************)
MaxRecords == 3      \* longest list handed to deduplicate
MaxCompanies == 3    \* longest list handed to enrich_from_websites
MaxRows == 2         \* longest sites_to_check list of enrich_sf

(***************************************************************************)
(* Strings.                                                                *)
(***************************************************************************)
UpperLetters == <<"A","B","C","D","E","F","G","H","I","J","K","L","M",
                  "N","O","P","Q","R","S","T","U","V","W","X","Y","Z">>
LowerLetters == <<"a","b","c","d","e","f","g","h","i","j","k","l","m",
                  "n","o","p","q","r","s","t","u","v","w","x","y","z">>
Digits == {"0","1","2","3","4","5","6","7","8","9"}

Range(s) == {s[i] : i \in 1..Len(s)}

\* the lower-case letter of each upper-case letter
LowerOf == [c \in Range(UpperLetters) |->
               LowerLetters[CHOOSE i \in 1..26 : UpperLetters[i] = c]]

\* str.lower() on one character
LowerChar(c) == IF c \in DOMAIN LowerOf THEN LowerOf[c] ELSE c

\* str.lower()
Lower(s) == [i \in 1..Len(s) |-> LowerChar(s[i])]

\* re.sub(r"[^a-z0-9]", "", s)
LowerAlnum == Range(LowerLetters) \cup Digits
StripNonAlnum(s) == SelectSeq(s, LAMBDA c : c \in LowerAlnum)

\* Python's `a in b` on two strings: a occurs in b as a contiguous substring
IsSubstr(a, b) ==
    \E k \in 0..(Len(b) - Len(a)) : SubSeq(b, k + 1, k + Len(a)) = a

\* s.startswith(p)
StartsWith(s, p) == Len(s) >= Len(p) /\ SubSeq(s, 1, Len(p)) = p

\* the slice keeps the whole string
TruncateKeepsAll(s, n) == s

\* s[:n]
Truncate(s, n) == SubSeq(s, 1, IF Len(s) < n THEN Len(s) ELSE n)

\* s.split(", ") for a non-empty separator: the pieces between occurrences
RECURSIVE SplitCommaSpace(_)
SplitCommaSpace(s) ==
    LET hits == {k \in 1..(Len(s) - 1) : s[k] = "," /\ s[k + 1] = " "}
    IN  IF hits = {} THEN <<s>>
        ELSE LET k == CHOOSE h \in hits : \A g \in hits : h <= g
             IN  <<SubSeq(s, 1, k - 1)>> \o SplitCommaSpace(SubSeq(s, k + 2, Len(s)))

SeqsUpTo(S, n) == UNION {[1..k -> S] : k \in 0..n}

\* the least element of a non-empty set of integers
Min(S) == CHOOSE m \in S : \A n \in S : m <= n

(***************************************************************************)
(* The entity record (dataclass InsuranceCompany).                        *)
(***************************************************************************)
FieldNames == {"name", "address", "city", "state", "zip_code", "phone", "website",
               "email", "rating", "review_count", "categories", "description",
               "source", "source_url"}

\* the tuple of field names deduplicate merges
MergeFields == <<"address", "phone", "website", "email", "rating",
                 "review_count", "categories", "description", "zip_code">>

\* InsuranceCompany(...): every field not given defaults to "", state to "CA"
InsuranceCompany(name, city, source, given) ==
    [f \in FieldNames |->
        IF f = "name" THEN name
        ELSE IF f = "city" THEN city
        ELSE IF f = "source" THEN source
        ELSE IF f \in DOMAIN given THEN given[f]
        ELSE IF f = "state" THEN <<"C","A">>
        ELSE << >>]

\* key that also folds the address in: what the identity key must not do
dedup_key_with_address(c) ==
    StripNonAlnum(Lower(c.name)) \o <<"_">> \o StripNonAlnum(Lower(c.city))
        \o StripNonAlnum(Lower(c.address))

\* the key without the "_" between name and city
dedup_key_no_separator(c) == StripNonAlnum(Lower(c.name)) \o StripNonAlnum(Lower(c.city))

\* InsuranceCompany.dedup_key
dedup_key(c) ==
    StripNonAlnum(Lower(c.name)) \o <<"_">> \o StripNonAlnum(Lower(c.city))

(***************************************************************************)
(* deduplicate.                                                            *)
(***************************************************************************)
\* last value wins
MergeFieldLastWins(existing_val, new_val) ==
    IF new_val # << >> THEN new_val ELSE existing_val

\* the retained value is never filled in
MergeFieldNeverCopies(existing_val, new_val) == existing_val

\* one iteration of `for fld in (...)`: the value of the retained record's field
MergeField(existing_val, new_val) ==
    IF existing_val = << >> /\ new_val # << >> THEN new_val ELSE existing_val

\* the label is joined without the ", " separator
MergeSourceNoSeparator(existing_source, source) ==
    IF ~IsSubstr(source, existing_source)
    THEN existing_source \o source
    ELSE existing_source

\* `if company.source not in existing.source: existing.source += f", {company.source}"`
MergeSource(existing_source, source) ==
    IF ~IsSubstr(source, existing_source)
    THEN existing_source \o <<",", " ">> \o source
    ELSE existing_source

\* the fields are merged only when the incoming source label is new
MergeRecordOnlyForNewSource(existing, company) ==
    IF IsSubstr(company.source, existing.source) THEN existing
    ELSE [f \in FieldNames |->
            IF f \in Range(MergeFields)
            THEN (IF existing[f] = << >> THEN company[f] ELSE existing[f])
            ELSE IF f = "source" THEN existing.source \o <<",", " ">> \o company.source
            ELSE existing[f]]

\* the body of `if key in seen:`: the retained record after merging `company` into it
MergeRecord(existing, company) ==
    [f \in FieldNames |->
        IF f \in Range(MergeFields) THEN MergeField(existing[f], company[f])
        ELSE IF f = "source" THEN MergeSource(existing.source, company.source)
        ELSE existing[f]]

\* only the most recently retained record is compared
LookupSeenLastOnly(recs, seenSeq, key) ==
    IF seenSeq # << >> /\ dedup_key(recs[seenSeq[Len(seenSeq)]]) = key
    THEN seenSeq[Len(seenSeq)]
    ELSE 0

\* `key in seen` / `seen[key]`: the index of the retained record of `key`, 0 if none
LookupSeen(recs, seenSeq, key) ==
    IF \E k \in 1..Len(seenSeq) : dedup_key(recs[seenSeq[k]]) = key
    THEN seenSeq[CHOOSE k \in 1..Len(seenSeq) : dedup_key(recs[seenSeq[k]]) = key]
    ELSE 0

\* one iteration of `for company in results`, on the objects `recs` and the dict
DedupIter(recs, seenSeq, i) ==
    LET company == recs[i]
        key == dedup_key(company)
        j == LookupSeen(recs, seenSeq, key)
    IN  IF j # 0
        THEN [recs |-> [recs EXCEPT ![j] = MergeRecord(recs[j], company)],
              seen |-> seenSeq]
        ELSE [recs |-> recs, seen |-> Append(seenSeq, i)]

\* the values of the dict in reverse insertion order
SeenValuesReversed(recs, seenSeq) ==
    [k \in 1..Len(seenSeq) |-> recs[seenSeq[Len(seenSeq) + 1 - k]]]

\* list(seen.values())
SeenValues(recs, seenSeq) == [k \in 1..Len(seenSeq) |-> recs[seenSeq[k]]]

RECURSIVE DedupLoop(_, _, _)
DedupLoop(recs, seenSeq, i) ==
    IF i > Len(recs) THEN SeenValues(recs, seenSeq)
    ELSE LET next == DedupIter(recs, seenSeq, i)
         IN  DedupLoop(next.recs, next.seen, i + 1)

\* deduplicate(results), as a function of the list's field values
deduplicate(recs) == DedupLoop(recs, << >>, 1)

(***************************************************************************)
(* Inputs of deduplicate: lists of at most MaxRecords records of DedupPool.*)
(***************************************************************************)
S_AcmeInsurance == <<"A","c","m","e"," ","I","n","s","u","r","a","n","c","e">>   \* "Acme Insurance"
S_ACME_INSURANCE == <<"A","C","M","E"," ","I","N","S","U","R","A","N","C","E">>  \* "ACME INSURANCE"
S_Acme_Dash == <<"a","c","m","e","-","i","n","s","u","r","a","n","c","e",".">>   \* "acme-insurance."
S_ZedCo == <<"Z","e","d"," ","C","o">>                                          \* "Zed Co"
S_Oakland == <<"O","a","k","l","a","n","d">>                                    \* "Oakland"
S_OaklandBang == <<"O","A","K","L","A","N","D","!">>                            \* "OAKLAND!"
S_A == <<"A">>
S_B == <<"B">>
S_AB == <<"A","B">>
S_A_B == <<"A",","," ","B">>                                                    \* "A, B"
S_Phone1 == <<"5","5","5","-","1","1","1","1">>                                 \* "555-1111"
S_Phone2 == <<"5","5","5","-","2","2","2","2">>                                 \* "555-2222"
S_Web1 == <<"h","t","t","p",":","/","/","a","c","m","e",".","t","e","s","t">>   \* "http://acme.test"
S_Web2 == <<"h","t","t","p","s",":","/","/","z","e","d",".","t","e","s","t">>   \* "https://zed.test"
S_WebNoScheme == <<"w","w","w",".","a","c","m","e",".","t","e","s","t">>        \* "www.acme.test"
S_Addr1 == <<"1"," ","M","a","i","n"," ","S","t">>                              \* "1 Main St"
S_Addr2 == <<"9"," ","E","l","m"," ","A","v","e">>                              \* "9 Elm Ave"
S_Email1 == <<"a","@","a","c","m","e",".","t","e","s","t">>                     \* "a@acme.test"
S_Email2 == <<"z","@","z","e","d",".","t","e","s","t">>                         \* "z@zed.test"
S_Rating1 == <<"4",".","5">>
S_Rating2 == <<"3",".","0">>
S_Reviews1 == <<"1","2">>
S_Reviews2 == <<"7">>
S_Cat1 == <<"B","r","o","k","e","r">>
S_Cat2 == <<"A","g","e","n","c","y">>
S_Desc1 == <<"A","c","m","e">>
S_Desc2 == <<"Z","e","d">>
S_Zip1 == <<"9","4","6","0","7">>
S_Zip2 == <<"9","4","1","0","5">>
S_Url == <<"u">>

NoFields == [source_url |-> << >>]
OnlyPhone == [source_url |-> << >>, phone |-> S_Phone1]
OnlyWebsite == [source_url |-> << >>, website |-> S_Web1]
Full1 == [source_url |-> S_Url, address |-> S_Addr1, phone |-> S_Phone1,
          website |-> S_Web1, email |-> S_Email1, rating |-> S_Rating1,
          review_count |-> S_Reviews1, categories |-> S_Cat1,
          description |-> S_Desc1, zip_code |-> S_Zip1]
Full2 == [source_url |-> S_Url, address |-> S_Addr2, phone |-> S_Phone2,
          website |-> S_Web2, email |-> S_Email2, rating |-> S_Rating2,
          review_count |-> S_Reviews2, categories |-> S_Cat2,
          description |-> S_Desc2, zip_code |-> S_Zip2]

\* the two records of the end-to-end scenario
AcmeA == InsuranceCompany(S_AcmeInsurance, S_Oakland, S_A, OnlyPhone)
AcmeB == InsuranceCompany(S_ACME_INSURANCE, S_Oakland, S_B, OnlyWebsite)

DedupPool ==
    { AcmeA, AcmeB,
      InsuranceCompany(S_Acme_Dash, S_OaklandBang, S_AB, Full1),
      InsuranceCompany(S_ACME_INSURANCE, S_Oakland, S_A, Full2),
      InsuranceCompany(S_AcmeInsurance, S_Oakland, S_B, NoFields),
      InsuranceCompany(S_AcmeInsurance, << >>, S_A, Full1),
      InsuranceCompany(S_ZedCo, S_Oakland, S_B, Full2),
      InsuranceCompany(S_ZedCo, S_Oakland, S_AB, OnlyPhone) }

(***************************************************************************)
(* The deduplicate loop, one action per kind of iteration.                 *)
(***************************************************************************)
DedupIdle ==
    /\ results = << >> /\ input = << >> /\ seen = << >>
    /\ di = 1 /\ unique = << >> /\ dpc = "done"

EnrichIdle ==
    /\ companies = << >> /\ before = << >> /\ ei = 1 /\ enriched = 0
    /\ fetched = << >> /\ outcome = << >> /\ slept = TRUE /\ epc = "done"

SfIdle ==
    /\ all_rows = << >> /\ rows_before = << >> /\ ri = 1
    /\ found_emails = 0 /\ requests = << >>

InitDedup ==
    /\ prog = "dedup"
    /\ results \in SeqsUpTo(DedupPool, MaxRecords)
    /\ input = results
    /\ seen = << >>
    /\ di = 1
    /\ unique = << >>
    /\ dpc = "loop"
    /\ EnrichIdle
    /\ SfIdle
    /\ RestIdle

\* `else: seen[key] = company`
DedupInsert ==
    /\ prog = "dedup" /\ dpc = "loop" /\ di <= Len(results)
    /\ LookupSeen(results, seen, dedup_key(results[di])) = 0
    /\ results' = DedupIter(results, seen, di).recs
    /\ seen' = DedupIter(results, seen, di).seen
    /\ di' = di + 1
    /\ UNCHANGED <<prog, input, unique, dpc, enrichVars, sfVars, restVars>>

\* `if key in seen:` merge into the retained record
DedupMerge ==
    /\ prog = "dedup" /\ dpc = "loop" /\ di <= Len(results)
    /\ LookupSeen(results, seen, dedup_key(results[di])) # 0
    /\ results' = DedupIter(results, seen, di).recs
    /\ seen' = DedupIter(results, seen, di).seen
    /\ di' = di + 1
    /\ UNCHANGED <<prog, input, unique, dpc, enrichVars, sfVars, restVars>>

\* `return list(seen.values())`
DedupReturn ==
    /\ prog = "dedup" /\ dpc = "loop" /\ di > Len(results)
    /\ unique' = SeenValues(results, seen)
    /\ dpc' = "done"
    /\ UNCHANGED <<prog, results, input, seen, di, enrichVars, sfVars, restVars>>

NextDedup == DedupInsert \/ DedupMerge \/ DedupReturn

SpecDedup == InitDedup /\ [][NextDedup]_vars

\* the stepwise loop and the function deduplicate agree
DedupModelAgrees == dpc = "done" /\ prog = "dedup" => unique = deduplicate(input)

(***************************************************************************)
(* HTTP responses.  A response body is represented by what the code reads  *)
(* from it: the matches of the e-mail pattern                              *)
(*   [a-zA-Z0-9._%+-]+@[a-zA-Z0-9.-]+\.[a-zA-Z]{2,}                        *)
(* in document order (re.findall), whether a <meta name="description"> tag *)
(* is present, and the value of its content attribute ("" when absent).    *)
(* kind "error" is a request that raised; otherwise status_code is set.    *)
(***************************************************************************)
S_http == <<"h","t","t","p">>
S_GoogleMaps == <<"G","o","o","g","l","e"," ","M","a","p","s">>                 \* "Google Maps"
S_SanFrancisco == <<"S","a","n"," ","F","r","a","n","c","i","s","c","o">>      \* "San Francisco"
S_SF_ == <<"S","F"," ">>                                                        \* "SF "
S_SFDowntown == <<"S","F"," ","D","o","w","n","t","o","w","n">>                 \* "SF Downtown"
S_InfoExample == <<"i","n","f","o","@","e","x","a","m","p","l","e",".","c","o","m">>      \* "info@example.com"
S_SalesRealbiz == <<"s","a","l","e","s","@","r","e","a","l","b","i","z",".","c","o","m">> \* "sales@realbiz.com"
S_SalesRealbizCaps == <<"S","a","l","e","s","@","R","e","a","l","B","i","z",".","c","o","m">> \* "Sales@RealBiz.com"
S_XSentry == <<"x","@","s","e","n","t","r","y",".","i","o">>                    \* "x@sentry.io"
S_NoreplyRealbiz == <<"n","o","r","e","p","l","y","@","r","e","a","l","b","i","z",".","c","o","m">> \* "noreply@realbiz.com"
S_BestBroker == <<"B","e","s","t"," ","b","r","o","k","e","r">>                 \* "Best broker"

\* the slice bound of `[:500]`
DescriptionLimit == 500
\* the bound of `enriched >= 200`; the code's cap is 200, scaled down here so that
\* a list of MaxCompanies records can hold more eligible records than the cap
EnrichCap == 2
\* the bound of `len(em) < 80`
EmailLengthLimit == 80

\* a meta description one character longer than the slice keeps
S_LongDescription == [i \in 1..(DescriptionLimit + 1) |-> "x"]

NoResponse ==
    [kind |-> "none", status_code |-> 0, emails |-> << >>,
     meta_present |-> FALSE, content |-> << >>]
ErrorResponse ==
    [kind |-> "error", status_code |-> 0, emails |-> << >>,
     meta_present |-> FALSE, content |-> << >>]
HttpResponse(code, emails, meta_present, content) ==
    [kind |-> "http", status_code |-> code, emails |-> emails,
     meta_present |-> meta_present, content |-> content]

Pages ==
    { <<<<S_InfoExample, S_SalesRealbiz>>, TRUE, S_BestBroker>>,
      <<<<S_XSentry>>, FALSE, << >>>>,
      <<<<S_NoreplyRealbiz, S_SalesRealbizCaps, S_SalesRealbiz>>, TRUE, S_LongDescription>>,
      <<<< >>, TRUE, << >>>> }

OkResponses == {HttpResponse(200, p[1], p[2], p[3]) : p \in Pages}
Non200Responses == {HttpResponse(404, <<S_SalesRealbiz>>, TRUE, S_BestBroker)}
Responses == {ErrorResponse} \cup Non200Responses \cup OkResponses

(***************************************************************************)
(* enrich_from_websites (src/scraper.py).                                  *)
(***************************************************************************)
EnrichJunk ==
    << <<"e","x","a","m","p","l","e",".","c","o","m">>,
       <<"s","e","n","t","r","y">>,
       <<"w","e","b","p","a","c","k">>,
       <<"w","i","x","p","r","e","s","s">> >>

\* `not company.website or not company.website.startswith("http")` is false
Eligible(company) == company.website # << >> /\ StartsWith(company.website, S_http)

\* `not any(x in em.lower() for x in [...])`
NotJunk(em, junk) ==
    LET em_lower == Lower(em)
    IN  ~\E k \in 1..Len(junk) : IsSubstr(junk[k], em_lower)

\* the `for em in email_matches: ... break` loop: the first match that is not
\* junk, "" when there is none
FirstGoodEmail(email_matches) ==
    LET good == SelectSeq(email_matches, LAMBDA em : NotJunk(em, EnrichJunk))
    IN  IF good = << >> THEN << >> ELSE good[1]

\* the e-mail found on the page replaces the one on record
EnrichEmailOverwrites(company, resp) ==
    IF FirstGoodEmail(resp.emails) # << >> THEN FirstGoodEmail(resp.emails)
    ELSE company.email

\* lines 723-732: company.email after the "Extract emails" block
EnrichEmail(company, resp) ==
    IF company.email = << >> /\ FirstGoodEmail(resp.emails) # << >>
    THEN FirstGoodEmail(resp.emails)
    ELSE company.email

\* lines 735-738: company.description after the "Extract meta description" block
EnrichDescription(company, resp) ==
    IF company.description = << >> /\ resp.meta_present
    THEN Truncate(resp.content, DescriptionLimit)
    ELSE company.description

\* the body is read whatever the status code is
EnrichApplyIgnoringStatus(company, resp) ==
    IF resp.kind = "error" THEN company
    ELSE [company EXCEPT !.email = EnrichEmail(company, resp),
                         !.description = EnrichDescription(company, resp)]

\* lines 714-745: the company after the try block, given the outcome of session.get
EnrichApply(company, resp) ==
    IF resp.kind = "error" \/ resp.status_code # 200 THEN company
    ELSE [company EXCEPT !.email = EnrichEmail(company, resp),
                         !.description = EnrichDescription(company, resp)]

\* `enriched += 1` is reached only after a 200 response was processed
EnrichCount(n, resp) ==
    IF resp.kind = "http" /\ resp.status_code = 200 THEN n + 1 ELSE n

\* polite_sleep(1, 3) at the end of the iteration: skipped by the `continue` of a
\* non-200 response, reached after a 200 response and after a caught exception
SleepsAfter(resp) == resp.kind = "error" \/ resp.status_code = 200

Web1Only == [source_url |-> S_Url, website |-> S_Web1]
NoSchemeOnly == [source_url |-> S_Url, website |-> S_WebNoScheme]
Web2WithEmail == [source_url |-> S_Url, website |-> S_Web2, email |-> S_Email2]

EnrichPool ==
    { InsuranceCompany(S_AcmeInsurance, S_Oakland, S_GoogleMaps, Web1Only),
      InsuranceCompany(S_ZedCo, S_Oakland, S_GoogleMaps, Full2),
      InsuranceCompany(S_ZedCo, S_SanFrancisco, S_GoogleMaps, Web2WithEmail),
      InsuranceCompany(S_AcmeInsurance, << >>, S_GoogleMaps, NoSchemeOnly),
      InsuranceCompany(S_ZedCo, S_Oakland, S_GoogleMaps, OnlyPhone) }

InitEnrich ==
    /\ prog = "scraper"
    /\ companies \in SeqsUpTo(EnrichPool, MaxCompanies)
    /\ before = companies
    /\ ei = 1
    /\ enriched = 0
    /\ fetched = << >>
    /\ outcome = [i \in 1..Len(companies) |-> NoResponse]
    /\ slept = TRUE
    /\ epc = "loop"
    /\ DedupIdle
    /\ SfIdle
    /\ RestIdle

EnrichAt == prog = "scraper" /\ epc = "loop" /\ ei <= Len(companies)

\* lines 707-708: no usable website: `continue`
EnrichSkip ==
    /\ EnrichAt
    /\ ~Eligible(companies[ei])
    /\ ei' = ei + 1
    /\ UNCHANGED <<prog, companies, before, enriched, fetched, outcome, slept, epc,
                   dedupVars, sfVars, restVars>>

\* lines 710-712: `if enriched >= 200: break`
EnrichCapReached ==
    /\ EnrichAt
    /\ Eligible(companies[ei])
    /\ enriched >= EnrichCap
    /\ epc' = "done"
    /\ UNCHANGED <<prog, companies, before, ei, enriched, fetched, outcome, slept,
                   dedupVars, sfVars, restVars>>

\* the record at the loop position has a usable website and the cap is not reached
EnrichRequestDue ==
    /\ EnrichAt
    /\ Eligible(companies[ei])
    /\ enriched < EnrichCap

\* lines 714-747 for one response of session.get
EnrichFetch(resp) ==
    /\ companies' = [companies EXCEPT ![ei] = EnrichApply(@, resp)]
    /\ enriched' = EnrichCount(enriched, resp)
    /\ fetched' = Append(fetched, ei)
    /\ outcome' = [outcome EXCEPT ![ei] = resp]
    /\ slept' = SleepsAfter(resp)
    /\ ei' = ei + 1
    /\ UNCHANGED <<prog, before, epc, dedupVars, sfVars, restVars>>

\* session.get raises (timeout, connection error, ...): `except Exception: pass`
EnrichFetchError ==
    /\ EnrichRequestDue
    /\ EnrichFetch(ErrorResponse)

\* `if resp.status_code != 200: continue`
EnrichFetchNon200 ==
    /\ EnrichRequestDue
    /\ \E resp \in Non200Responses : EnrichFetch(resp)

\* a 200 response
EnrichFetchOk ==
    /\ EnrichRequestDue
    /\ \E resp \in OkResponses : EnrichFetch(resp)

\* the for loop is exhausted
EnrichReturn ==
    /\ prog = "scraper" /\ epc = "loop" /\ ei > Len(companies)
    /\ epc' = "done"
    /\ UNCHANGED <<prog, companies, before, ei, enriched, fetched, outcome, slept,
                   dedupVars, sfVars, restVars>>

NextEnrich ==
    \/ EnrichSkip
    \/ EnrichCapReached
    \/ EnrichFetchError
    \/ EnrichFetchNon200
    \/ EnrichFetchOk
    \/ EnrichReturn

(***************************************************************************)
(* enrich_sf.py: extract_emails, scrape_website_for_email and phase 2 of   *)
(* main.                                                                   *)
(***************************************************************************)
ExtractJunk ==
    << <<"e","x","a","m","p","l","e",".","c","o","m">>,
       <<"s","e","n","t","r","y">>,
       <<"w","e","b","p","a","c","k">>,
       <<"w","i","x","p","r","e","s","s">>,
       <<"w","i","x",".","c","o","m">>,
       <<"s","q","u","a","r","e","s","p","a","c","e">>,
       <<"w","o","r","d","p","r","e","s","s">>,
       <<"g","o","o","g","l","e",".","c","o","m">>,
       <<"s","c","h","e","m","a",".","o","r","g">>,
       <<"w","3",".","o","r","g">>,
       <<"s","e","n","t","r","y",".","i","o">>,
       <<"c","l","o","u","d","f","l","a","r","e">>,
       <<"j","q","u","e","r","y">>,
       <<"b","o","o","t","s","t","r","a","p">>,
       <<"p","l","a","c","e","h","o","l","d","e","r">>,
       <<"y","o","u","r","d","o","m","a","i","n">>,
       <<"e","m","a","i","l",".","c","o","m">>,
       <<"d","o","m","a","i","n",".","c","o","m">>,
       <<"t","e","s","t",".","c","o","m">>,
       <<"n","o","r","e","p","l","y">>,
       <<"n","o","-","r","e","p","l","y">>,
       <<"y","o","u","r","s","i","t","e">>,
       <<"c","h","a","n","g","e",".","m","e">>,
       <<"c","o","m","p","a","n","y",".","c","o","m">>,
       <<"s","a","m","p","l","e",".","c","o","m">>,
       <<".","p","n","g">>,
       <<".","j","p","g">>,
       <<".","g","i","f">>,
       <<".","s","v","g">> >>

\* the first loop of extract_emails: matches that are not junk and are short enough
FilterEmails(raw) ==
    SelectSeq(raw, LAMBDA em : NotJunk(em, ExtractJunk) /\ Len(em) < EmailLengthLimit)

\* the second loop of extract_emails: case-insensitive duplicates dropped, first kept
DedupeEmails(filtered) ==
    LET keep == {k \in 1..Len(filtered) :
                    \A j \in 1..(k - 1) : Lower(filtered[j]) # Lower(filtered[k])}
        pos(n) == CHOOSE k \in keep : Cardinality({j \in keep : j < k}) = n - 1
    IN  [n \in 1..Cardinality(keep) |-> filtered[pos(n)]]

\* extract_emails(html), on the matches re.findall returns for html
extract_emails(raw) == DedupeEmails(FilterEmails(raw))

\* the contact-page suffixes tried in order: /contact /contact-us /about /about-us /contactus
NumSuffixes == 5

\* the position of the first suffix response that yields an e-mail, 0 if none
FirstSuffixHit(subs) ==
    LET hits == {k \in 1..NumSuffixes :
                    /\ subs[k].kind = "http"
                    /\ subs[k].status_code = 200
                    /\ extract_emails(subs[k].emails) # << >>}
    IN  IF hits = {} THEN 0 ELSE CHOOSE k \in hits : \A j \in hits : k <= j

\* scrape_website_for_email(website), for the response `main` of the site and
\* the responses `subs` of its contact pages: the e-mail returned and the number
\* of GET requests issued
scrape_website_for_email(website, main, subs) ==
    LET emails == extract_emails(main.emails)
        hit == FirstSuffixHit(subs)
    IN  IF website = << >> \/ ~StartsWith(website, S_http)
        THEN [email |-> << >>, gets |-> 0]
        ELSE IF main.kind = "error" \/ main.status_code # 200
        THEN [email |-> << >>, gets |-> 1]
        ELSE IF emails # << >>
        THEN [email |-> emails[1], gets |-> 1]
        ELSE IF hit # 0
        THEN [email |-> extract_emails(subs[hit].emails)[1], gets |-> 1 + hit]
        ELSE [email |-> << >>, gets |-> 1 + NumSuffixes]

\* line 108: the row is a San Francisco row sourced from Google Maps
IsSfRow(row) ==
    /\ StartsWith(row.city, S_SF_) \/ row.city = S_SanFrancisco
    /\ IsSubstr(S_GoogleMaps, row.source)

\* line 226: sites_to_check, as indexes into all_rows
sites_to_check ==
    LET sel == {i \in 1..Len(rows_before) :
                   IsSfRow(rows_before[i]) /\ rows_before[i].website # << >>}
        pos(n) == CHOOSE i \in sel : Cardinality({j \in sel : j < i}) = n - 1
    IN  [n \in 1..Cardinality(sel) |-> pos(n)]

SfWeb1 == [source_url |-> S_Url, website |-> S_Web1]
SfWeb2Email == [source_url |-> S_Url, website |-> S_Web2, email |-> S_Email2]
SfNoScheme == [source_url |-> S_Url, website |-> S_WebNoScheme]

RowPool ==
    { InsuranceCompany(S_AcmeInsurance, S_SanFrancisco, S_GoogleMaps, SfWeb1),
      InsuranceCompany(S_ZedCo, S_SFDowntown, S_GoogleMaps, SfWeb2Email),
      InsuranceCompany(S_ZedCo, S_SanFrancisco, S_GoogleMaps, SfNoScheme),
      InsuranceCompany(S_AcmeInsurance, S_SanFrancisco, S_GoogleMaps, OnlyPhone),
      InsuranceCompany(S_AcmeInsurance, S_Oakland, S_GoogleMaps, SfWeb1) }

\* responses of the contact pages: the suffixes before `first` fail alike, the
\* others answer 200 alike
SuffixResponses ==
    {[k \in 1..NumSuffixes |-> IF k < first THEN miss ELSE hit] :
        first \in 1..(NumSuffixes + 1), miss \in {ErrorResponse} \cup Non200Responses,
        hit \in OkResponses}

\* the contact pages are requested only after a 200 main page without an e-mail;
\* otherwise their responses are never read
SuffixResponsesAfter(website, main) ==
    IF /\ website # << >> /\ StartsWith(website, S_http)
       /\ main.kind = "http" /\ main.status_code = 200
       /\ extract_emails(main.emails) = << >>
    THEN SuffixResponses
    ELSE {[k \in 1..NumSuffixes |-> NoResponse]}

InitSf ==
    /\ prog = "enrich_sf"
    /\ all_rows \in SeqsUpTo(RowPool, MaxRows)
    /\ rows_before = all_rows
    /\ ri = 1
    /\ found_emails = 0
    /\ requests = [i \in 1..Len(all_rows) |-> 0]
    /\ DedupIdle
    /\ EnrichIdle
    /\ RestIdle

SfAt == prog = "enrich_sf" /\ ri <= Len(sites_to_check)

\* lines 231-233: the row already has an e-mail: counted and skipped
SfSkipHasEmail ==
    /\ SfAt
    /\ all_rows[sites_to_check[ri]].email # << >>
    /\ found_emails' = found_emails + 1
    /\ ri' = ri + 1
    /\ UNCHANGED <<prog, all_rows, rows_before, requests, dedupVars, enrichVars, restVars>>

\* lines 239-240: `if email: all_rows[idx]["email"] = email`
SfStoreEmail(row, email) ==
    IF email # << >> THEN [row EXCEPT !.email = email] ELSE row

\* lines 235-244: the site is scraped and a found e-mail is stored
SfScrape ==
    /\ SfAt
    /\ all_rows[sites_to_check[ri]].email = << >>
    /\ \E main \in Responses :
       \E subs \in SuffixResponsesAfter(all_rows[sites_to_check[ri]].website, main) :
          LET idx == sites_to_check[ri]
              got == scrape_website_for_email(all_rows[idx].website, main, subs)
          IN  /\ all_rows' = [all_rows EXCEPT ![idx] = SfStoreEmail(@, got.email)]
              /\ found_emails' = IF got.email # << >> THEN found_emails + 1
                                 ELSE found_emails
              /\ requests' = [requests EXCEPT ![idx] = @ + got.gets]
    /\ ri' = ri + 1
    /\ UNCHANGED <<prog, rows_before, dedupVars, enrichVars, restVars>>

NextSf == SfSkipHasEmail \/ SfScrape

\* the two enrichment programs: enrich_from_websites of scraper.py, and phase 2 of
\* enrich_sf.main
InitEnrichers == InitEnrich \/ InitSf
NextEnrichers == NextEnrich \/ NextSf
SpecEnrich == InitEnrichers /\ [][NextEnrichers]_vars

(***************************************************************************)
(* main (src/scraper.py:844-890): the connectors in the order of its `if`  *)
(* statements, then deduplicate, enrich_from_websites and save_results.    *)
(* A connector is one step of main: it returns, having appended its        *)
(* records to all_results, or an exception leaves it.  The identifiers are *)
(* compared as list elements (`"gmaps" in sources` on a list), so they are *)
(* atoms here.                                                             *)
(***************************************************************************)
MaxArgs == 3         \* most identifiers on the command line

S_Yelp == <<"Y","e","l","p">>
S_YellowPages == <<"Y","e","l","l","o","w"," ","P","a","g","e","s">>            \* "Yellow Pages"
S_CDI == <<"C","D","I"," ","A","d","m","i","t","t","e","d"," ",
           "I","n","s","u","r","e","r","s">>                                    \* "CDI Admitted Insurers"
S_Naic == <<"N","A","I","C",":"," ","2","2","6","6","7">>                       \* "NAIC: 22667"

\* what can be typed on the command line
Identifiers == {"gmaps", "yelp", "yellowpages", "cdi", "enrich", "other"}

\* the connectors, in the order of the `if` statements of main (lines 859-869)
Connectors == <<"gmaps", "yelp", "yellowpages", "cdi">>

\* the default list is every connector
sources_default_all == IF Len(argv) > 0 THEN argv ELSE Connectors

\* line 857: `sources = sys.argv[1:] if len(sys.argv) > 1 else ["gmaps", "cdi"]`
sources == IF Len(argv) > 0 THEN argv ELSE <<"gmaps", "cdi">>

\* `"<id>" in sources`
InSources(id) == \E k \in 1..Len(sources) : sources[k] = id

\* line 878: `"enrich" in sources or len(sys.argv) <= 1`
EnrichRequested == InSources("enrich") \/ Len(argv) = 0

\* the statement after the `if` of a connector, after deduplicate, ...
StageAfter(stage) ==
    CASE stage = "gmaps" -> "yelp"
      [] stage = "yelp" -> "yellowpages"
      [] stage = "yellowpages" -> "cdi"
      [] stage = "cdi" -> "dedup"
      [] stage = "dedup" -> "enrich"
      [] stage = "enrich" -> "save"
      [] stage = "save" -> "done"

\* the connectors that open a browser session outside any try block
\* (`with sync_playwright() as p: browser = p.chromium.launch(...)`, lines
\* 210-218, 458-466, 544-552); scrape_cdi_pdf runs wholly inside try/except
BrowserConnectors == {"gmaps", "yelp", "yellowpages"}

GmAcme == InsuranceCompany(S_AcmeInsurance, S_Oakland, S_GoogleMaps,
                           [source_url |-> S_Url, phone |-> S_Phone1])
YelpAcme == InsuranceCompany(S_ACME_INSURANCE, S_Oakland, S_Yelp,
                             [source_url |-> S_Url, website |-> S_Web1])
YpZed == InsuranceCompany(S_ZedCo, S_Oakland, S_YellowPages,
                          [source_url |-> S_Url, website |-> S_Web2])
CdiAcme == InsuranceCompany(S_ACME_INSURANCE, << >>, S_CDI,
                            [source_url |-> S_Url, categories |-> S_Naic])

\* what a connector that returns may have appended (nothing when its library is
\* missing or every query failed)
ConnectorAppends(c) ==
    CASE c = "gmaps" -> {<< >>, <<GmAcme>>}
      [] c = "yelp" -> {<< >>, <<YelpAcme>>}
      [] c = "yellowpages" -> {<< >>, <<YpZed>>}
      [] c = "cdi" -> {<< >>, <<CdiAcme>>}

\* the loop of enrich_from_websites (lines 706-747) as a function of the list and
\* of the response to the request of each record
RECURSIVE EnrichLoop(_, _, _, _)
EnrichLoop(cs, resps, i, n) ==
    IF i > Len(cs) THEN cs
    ELSE IF ~Eligible(cs[i]) THEN EnrichLoop(cs, resps, i + 1, n)
    ELSE IF n >= EnrichCap THEN cs
    ELSE EnrichLoop([cs EXCEPT ![i] = EnrichApply(@, resps[i])], resps, i + 1,
                    EnrichCount(n, resps[i]))

\* enrich_from_websites(companies): the field values of the list afterwards
enrich_from_websites(cs, resps) == EnrichLoop(cs, resps, 1, 0)

\* the responses the websites give during a run of main
MainResponses ==
    {ErrorResponse, HttpResponse(200, <<S_InfoExample, S_SalesRealbiz>>, TRUE, S_BestBroker)}

\* the enricher is handed the raw list
EnrichArgumentRaw(raw, uniq) == raw

\* line 879: `enrich_from_websites(unique)`
EnrichArgument(raw, uniq) == uniq

InitMain ==
    /\ prog = "main"
    /\ argv \in SeqsUpTo(Identifiers, MaxArgs)
    /\ mpc = "gmaps"
    /\ ran = << >>
    /\ all_results = << >>
    /\ main_unique = << >>
    /\ enrich_arg = << >>
    /\ saved = << >>
    /\ DedupIdle
    /\ EnrichIdle
    /\ SfIdle
    /\ YelpIdle
    /\ GmapsIdle
    /\ CdiIdle
    /\ ExtractIdle
    /\ ContactIdle
    /\ ListingIdle
    /\ KeyIdle

MainAtConnector == prog = "main" /\ mpc \in Range(Connectors)

\* `if "<id>" in sources:` is false
MainConnectorNotRequested ==
    /\ MainAtConnector
    /\ ~InSources(mpc)
    /\ mpc' = StageAfter(mpc)
    /\ UNCHANGED <<prog, argv, ran, all_results, main_unique, enrich_arg, saved,
                   notMainVars>>

\* the connector is called and returns
MainConnectorReturns ==
    /\ MainAtConnector
    /\ InSources(mpc)
    /\ \E recs \in ConnectorAppends(mpc) : all_results' = all_results \o recs
    /\ ran' = Append(ran, mpc)
    /\ mpc' = StageAfter(mpc)
    /\ UNCHANGED <<prog, argv, main_unique, enrich_arg, saved,
                   notMainVars>>

\* the connector is called and starting its browser session raises: nothing in
\* the connector or in main catches it, so main ends with the exception
MainConnectorRaises ==
    /\ MainAtConnector
    /\ InSources(mpc)
    /\ mpc \in BrowserConnectors
    /\ ran' = Append(ran, mpc)
    /\ mpc' = "raised"
    /\ UNCHANGED <<prog, argv, all_results, main_unique, enrich_arg, saved,
                   notMainVars>>

\* line 875: `unique = deduplicate(all_results)`; all_results is not read after
\* this line, so it keeps the values the connectors appended
MainDeduplicate ==
    /\ prog = "main" /\ mpc = "dedup"
    /\ main_unique' = deduplicate(all_results)
    /\ ran' = Append(ran, "dedup")
    /\ mpc' = StageAfter(mpc)
    /\ UNCHANGED <<prog, argv, all_results, enrich_arg, saved,
                   notMainVars>>

\* lines 878-879: the enricher runs on `unique` and mutates its records
MainEnrich ==
    /\ prog = "main" /\ mpc = "enrich"
    /\ EnrichRequested
    /\ enrich_arg' = EnrichArgument(all_results, main_unique)
    /\ \E resps \in [1..Len(enrich_arg') -> MainResponses] :
          main_unique' = IF enrich_arg' = main_unique
                         THEN enrich_from_websites(main_unique, resps)
                         ELSE main_unique
    /\ ran' = Append(ran, "enrich")
    /\ mpc' = StageAfter(mpc)
    /\ UNCHANGED <<prog, argv, all_results, saved, notMainVars>>

\* line 878 is false
MainEnrichNotRequested ==
    /\ prog = "main" /\ mpc = "enrich"
    /\ ~EnrichRequested
    /\ mpc' = StageAfter(mpc)
    /\ UNCHANGED <<prog, argv, ran, all_results, main_unique, enrich_arg, saved,
                   notMainVars>>

\* line 885: `save_results(unique)`
MainSave ==
    /\ prog = "main" /\ mpc = "save"
    /\ saved' = main_unique
    /\ ran' = Append(ran, "save")
    /\ mpc' = StageAfter(mpc)
    /\ UNCHANGED <<prog, argv, all_results, main_unique, enrich_arg,
                   notMainVars>>

NextMain ==
    \/ MainConnectorNotRequested
    \/ MainConnectorReturns
    \/ MainConnectorRaises
    \/ MainDeduplicate
    \/ MainEnrich
    \/ MainEnrichNotRequested
    \/ MainSave

SpecMain == InitMain /\ [][NextMain]_vars

(***************************************************************************)
(* _parse_yelp_html (src/scraper.py:327-421).                              *)
(*                                                                         *)
(* A JSON value, as json.loads returns it, is a record with a type tag t:  *)
(* "null" (None), "num" (s is its text), "str" (s is the string), "list"   *)
(* (items) or "dict" (d, the key/value pairs in order).  An operation that *)
(* the value's Python type lacks raises as Python does: .get on anything   *)
(* but a dict is an AttributeError, `in` and iteration on None or on a     *)
(* number are a TypeError.                                                 *)
(***************************************************************************)
MaxTags == 2         \* most ld+json script tags on a page

JNull == [t |-> "null", s |-> << >>, items |-> << >>, d |-> << >>]
JNum(text) == [t |-> "num", s |-> text, items |-> << >>, d |-> << >>]
JStr(chars) == [t |-> "str", s |-> chars, items |-> << >>, d |-> << >>]
JList(items) == [t |-> "list", s |-> << >>, items |-> items, d |-> << >>]
JDict(pairs) == [t |-> "dict", s |-> << >>, items |-> << >>, d |-> pairs]

K_item == <<"i","t","e","m">>
K_name == <<"n","a","m","e">>
K_type == <<"@","t","y","p","e">>
K_itemListElement == <<"i","t","e","m","L","i","s","t","E","l","e","m","e","n","t">>
K_aggregateRating == <<"a","g","g","r","e","g","a","t","e","R","a","t","i","n","g">>
K_props == <<"p","r","o","p","s">>
K_pageProps == <<"p","a","g","e","P","r","o","p","s">>
K_searchPageProps == <<"s","e","a","r","c","h","P","a","g","e","P","r","o","p","s">>
K_mainList == <<"m","a","i","n","C","o","n","t","e","n","t","C","o","m","p","o","n","e","n","t","s",
                "L","i","s","t","P","r","o","p","s">>
K_searchResultBusiness == <<"s","e","a","r","c","h","R","e","s","u","l","t",
                            "B","u","s","i","n","e","s","s">>
K_bizCardProps == <<"b","i","z","C","a","r","d","P","r","o","p","s">>
K_businessName == <<"b","u","s","i","n","e","s","s","N","a","m","e">>
K_categories == <<"c","a","t","e","g","o","r","i","e","s">>
S_ItemList == <<"I","t","e","m","L","i","s","t">>
S_WebSite == <<"W","e","b","S","i","t","e">>

\* bool(j)
Truthy(j) ==
    CASE j.t = "null" -> FALSE
      [] j.t = "num" -> j.s # <<"0">>
      [] j.t = "str" -> j.s # << >>
      [] j.t = "list" -> j.items # << >>
      [] j.t = "dict" -> j.d # << >>

\* `key in j` for a dict j
HasKey(j, key) == \E k \in 1..Len(j.d) : j.d[k][1] = key

\* j.get(key, default) for a dict j
DictGet(j, key, default) ==
    IF HasKey(j, key)
    THEN j.d[CHOOSE k \in 1..Len(j.d) : j.d[k][1] = key][2]
    ELSE default

\* `"item" in item`: a key test on a dict, an element test on a list, a
\* substring test on a str, a TypeError on None and on a number
ItemIn(item) ==
    CASE item.t = "dict" -> IF HasKey(item, K_item) THEN "yes" ELSE "no"
      [] item.t = "list" ->
            IF \E k \in 1..Len(item.items) :
                  item.items[k].t = "str" /\ item.items[k].s = K_item
            THEN "yes" ELSE "no"
      [] item.t = "str" -> IF IsSubstr(K_item, item.s) THEN "yes" ELSE "no"
      [] OTHER -> "TypeError"

\* `for x in j`: whether j can be iterated, and what the loop visits
Iterable(j) == j.t \in {"list", "dict", "str"}
Iterate(j) ==
    CASE j.t = "list" -> j.items
      [] j.t = "dict" -> [k \in 1..Len(j.d) |-> JStr(j.d[k][1])]
      [] j.t = "str" -> [k \in 1..Len(j.s) |-> JStr(<<j.s[k]>>)]
      [] OTHER -> << >>

\* outcomes of a piece of code: the names of the records it appended and the
\* exception it raised ("none" if it ran to its end)
Outcome(names, exc) == [names |-> names, exc |-> exc]

\* lines 345-376: the body of `for item in items`
LdItem(item) ==
    IF ItemIn(item) = "TypeError" THEN Outcome(<< >>, "TypeError")
    ELSE IF ItemIn(item) = "yes" /\ item.t # "dict" THEN Outcome(<< >>, "AttributeError")
    ELSE LET biz == IF ItemIn(item) = "yes" THEN DictGet(item, K_item, item) ELSE item
         IN  IF biz.t # "dict" THEN Outcome(<< >>, "AttributeError")
             ELSE LET name == DictGet(biz, K_name, JStr(<< >>))
                      agg0 == DictGet(biz, K_aggregateRating, JDict(<< >>))
                      agg == IF Truthy(agg0) THEN agg0 ELSE JDict(<< >>)
                  IN  IF ~Truthy(name) THEN Outcome(<< >>, "none")
                      ELSE IF agg.t # "dict" THEN Outcome(<< >>, "AttributeError")
                      ELSE Outcome(<<name.s>>, "none")

\* lines 344-376: `for item in items`, stopped by the first exception
RECURSIVE LdItems(_, _, _)
LdItems(items, k, names) ==
    IF k > Len(items) THEN Outcome(names, "none")
    ELSE LET r == LdItem(items[k])
         IN  IF r.exc # "none" THEN Outcome(names, r.exc)
             ELSE LdItems(items, k + 1, names \o r.names)

\* the content of a script tag: tag.string is None, or text that json.loads
\* rejects, or text that json.loads turns into a value
NoString == [kind |-> "none", value |-> JNull]
BadJson == [kind |-> "bad", value |-> JNull]
Json(value) == [kind |-> "json", value |-> value]

\* lines 335-376: the try block of one ld+json tag
LdBlock(tag) ==
    IF tag.kind = "none" THEN Outcome(<< >>, "TypeError")
    ELSE IF tag.kind = "bad" THEN Outcome(<< >>, "JSONDecodeError")
    ELSE LET data == tag.value
             items == IF data.t = "list" THEN data
                      ELSE DictGet(data, K_itemListElement, JList(<< >>))
         IN  IF data.t # "list" /\
                ~(data.t = "dict" /\ DictGet(data, K_type, JNull).t = "str"
                                  /\ DictGet(data, K_type, JNull).s = S_ItemList)
             THEN Outcome(<< >>, "none")
             ELSE IF ~Iterable(items) THEN Outcome(<< >>, "TypeError")
             ELSE LdItems(Iterate(items), 1, << >>)

\* line 377: `except (json.JSONDecodeError, TypeError): continue`
CaughtInStrategy1 == {"JSONDecodeError", "TypeError"}

\* line 418: `except (json.JSONDecodeError, TypeError, KeyError): pass`
CaughtInStrategy2 == {"JSONDecodeError", "TypeError", "KeyError"}

\* `x.get(a) or y.get(b) or default`, given that x is a dict
GetOr(x, a, b, default) ==
    IF Truthy(DictGet(x, a, JNull)) THEN DictGet(x, a, JNull)
    ELSE IF Truthy(DictGet(x, b, JNull)) THEN DictGet(x, b, JNull)
    ELSE default

\* lines 394-417: the body of `for comp in components`
NdComp(comp) ==
    IF comp.t # "dict" THEN Outcome(<< >>, "AttributeError")
    ELSE LET biz == GetOr(comp, K_searchResultBusiness, K_bizCardProps, JDict(<< >>))
         IN  IF biz.t # "dict" THEN Outcome(<< >>, "AttributeError")
             ELSE LET name == IF Truthy(DictGet(biz, K_name, JNull))
                              THEN DictGet(biz, K_name, JNull)
                              ELSE DictGet(biz, K_businessName, JStr(<< >>))
                      cats == DictGet(biz, K_categories, JList(<< >>))
                  IN  IF ~Truthy(name) THEN Outcome(<< >>, "none")
                      ELSE IF ~Iterable(cats) THEN Outcome(<< >>, "TypeError")
                      ELSE IF \E k \in 1..Len(Iterate(cats)) : Iterate(cats)[k].t # "dict"
                      THEN Outcome(<< >>, "AttributeError")
                      ELSE Outcome(<<name.s>>, "none")

\* lines 393-417: `for comp in components`, stopped by the first exception
RECURSIVE NdComps(_, _, _)
NdComps(comps, k, names) ==
    IF k > Len(comps) THEN Outcome(names, "none")
    ELSE LET r == NdComp(comps[k])
         IN  IF r.exc # "none" THEN Outcome(names, r.exc)
             ELSE NdComps(comps, k + 1, names \o r.names)

\* lines 387-417: the try block of strategy 2
NdBlock(tag) ==
    IF tag.kind = "bad" THEN Outcome(<< >>, "JSONDecodeError")
    ELSE LET nd == tag.value
             props0 == DictGet(nd, K_props, JDict(<< >>))
             props == DictGet(props0, K_pageProps, JDict(<< >>))
             spp == DictGet(props, K_searchPageProps, JDict(<< >>))
             components == DictGet(spp, K_mainList, JList(<< >>))
         IN  IF nd.t # "dict" \/ props0.t # "dict" \/ props.t # "dict" \/ spp.t # "dict"
             THEN Outcome(<< >>, "AttributeError")
             ELSE IF ~Iterable(components) THEN Outcome(<< >>, "TypeError")
             ELSE NdComps(Iterate(components), 1, << >>)

\* business objects and the script contents a page may carry
BizAcme == JDict(<< <<K_name, JStr(S_AcmeInsurance)>> >>)
BizZed == JDict(<< <<K_name, JStr(S_ZedCo)>> >>)
BizNoName == JDict(<< <<K_type, JStr(S_WebSite)>> >>)

LdPool ==
    << NoString,
       BadJson,
       Json(JDict(<< <<K_type, JStr(S_ItemList)>>,
                     <<K_itemListElement,
                       JList(<< JDict(<< <<K_item, BizAcme>> >>) >>)>> >>)),
       Json(JList(<<BizAcme, BizNoName, BizZed>>)),
       Json(JDict(<< <<K_type, JStr(S_WebSite)>>, <<K_name, JStr(S_ZedCo)>> >>)),
       Json(JStr(S_AcmeInsurance)),
       Json(JList(<<JStr(S_AcmeInsurance)>>)),
       Json(JList(<<BizZed, JNum(<<"5">>)>>)) >>

NdPage(components) ==
    Json(JDict(<< <<K_props,
        JDict(<< <<K_pageProps,
            JDict(<< <<K_searchPageProps,
                JDict(<< <<K_mainList, components>> >>)>> >>)>> >>)>> >>))

NdPool ==
    << NoString,
       BadJson,
       NdPage(JList(<< JDict(<< <<K_bizCardProps, BizZed>> >>),
                       JDict(<< <<K_searchResultBusiness,
                                  JDict(<< <<K_businessName, JStr(S_AcmeInsurance)>> >>)>> >>) >>)),
       Json(JList(<<JNum(<<"1">>), JNum(<<"2">>)>>)),
       NdPage(JList(<<JNum(<<"5">>)>>)),
       NdPage(JNum(<<"5">>)) >>

\* strategy 1 never returns early
NeverReturnsAfterStrategy1(cs) == FALSE

\* lines 380-381: `if companies: return companies`
ReturnsAfterStrategy1(cs) == cs # << >>

InitYelp ==
    /\ prog = "yelp"
    /\ ld_tags \in SeqsUpTo(1..Len(LdPool), MaxTags)
    /\ nd_tag \in 0..Len(NdPool)
    /\ ti = 1
    /\ parsed = << >>
    /\ origin = << >>
    /\ s2_run = FALSE
    /\ ypc = "strategy1"
    /\ yexc = "none"
    /\ DedupIdle
    /\ EnrichIdle
    /\ SfIdle
    /\ MainIdle
    /\ GmapsIdle
    /\ CdiIdle
    /\ ExtractIdle
    /\ ContactIdle
    /\ ListingIdle
    /\ KeyIdle

YelpAtTag == prog = "yelp" /\ ypc = "strategy1" /\ ti <= Len(ld_tags)
YelpAfterTags == prog = "yelp" /\ ypc = "strategy1" /\ ti > Len(ld_tags)

\* the try block of a tag runs to its end, or raises what line 377 catches
YelpLdBlockContinues ==
    /\ YelpAtTag
    /\ LdBlock(LdPool[ld_tags[ti]]).exc \in {"none"} \cup CaughtInStrategy1
    /\ parsed' = parsed \o LdBlock(LdPool[ld_tags[ti]]).names
    /\ origin' = origin \o [k \in 1..Len(LdBlock(LdPool[ld_tags[ti]]).names) |-> "a"]
    /\ ti' = ti + 1
    /\ UNCHANGED <<prog, ld_tags, nd_tag, s2_run, ypc, yexc, notYelpVars>>

\* the try block of a tag raises what line 377 does not catch
YelpLdBlockRaises ==
    /\ YelpAtTag
    /\ LdBlock(LdPool[ld_tags[ti]]).exc \notin {"none"} \cup CaughtInStrategy1
    /\ parsed' = parsed \o LdBlock(LdPool[ld_tags[ti]]).names
    /\ origin' = origin \o [k \in 1..Len(LdBlock(LdPool[ld_tags[ti]]).names) |-> "a"]
    /\ ypc' = "raised"
    /\ yexc' = LdBlock(LdPool[ld_tags[ti]]).exc
    /\ UNCHANGED <<prog, ld_tags, nd_tag, ti, s2_run, notYelpVars>>

\* lines 380-381
YelpReturnsStrategy1 ==
    /\ YelpAfterTags
    /\ ReturnsAfterStrategy1(parsed)
    /\ ypc' = "returned"
    /\ UNCHANGED <<prog, ld_tags, nd_tag, ti, parsed, origin, s2_run, yexc, notYelpVars>>

\* `nd_tag and nd_tag.string`: there is a __NEXT_DATA__ tag and it has a string
NdTagHasString == IF nd_tag = 0 THEN FALSE ELSE NdPool[nd_tag].kind # "none"

\* line 385 is false
YelpStrategy2Skipped ==
    /\ YelpAfterTags
    /\ ~ReturnsAfterStrategy1(parsed)
    /\ ~NdTagHasString
    /\ s2_run' = TRUE
    /\ ypc' = "returned"
    /\ UNCHANGED <<prog, ld_tags, nd_tag, ti, parsed, origin, yexc, notYelpVars>>

YelpStrategy2Due ==
    /\ YelpAfterTags
    /\ ~ReturnsAfterStrategy1(parsed)
    /\ NdTagHasString

\* the try block of strategy 2 runs to its end, or raises what line 418 catches
YelpStrategy2Returns ==
    /\ YelpStrategy2Due
    /\ NdBlock(NdPool[nd_tag]).exc \in {"none"} \cup CaughtInStrategy2
    /\ parsed' = parsed \o NdBlock(NdPool[nd_tag]).names
    /\ origin' = origin \o [k \in 1..Len(NdBlock(NdPool[nd_tag]).names) |-> "b"]
    /\ s2_run' = TRUE
    /\ ypc' = "returned"
    /\ UNCHANGED <<prog, ld_tags, nd_tag, ti, yexc, notYelpVars>>

\* the try block of strategy 2 raises what line 418 does not catch
YelpStrategy2Raises ==
    /\ YelpStrategy2Due
    /\ NdBlock(NdPool[nd_tag]).exc \notin {"none"} \cup CaughtInStrategy2
    /\ parsed' = parsed \o NdBlock(NdPool[nd_tag]).names
    /\ origin' = origin \o [k \in 1..Len(NdBlock(NdPool[nd_tag]).names) |-> "b"]
    /\ s2_run' = TRUE
    /\ ypc' = "raised"
    /\ yexc' = NdBlock(NdPool[nd_tag]).exc
    /\ UNCHANGED <<prog, ld_tags, nd_tag, ti, notYelpVars>>

NextYelp ==
    \/ YelpLdBlockContinues
    \/ YelpLdBlockRaises
    \/ YelpReturnsStrategy1
    \/ YelpStrategy2Skipped
    \/ YelpStrategy2Returns
    \/ YelpStrategy2Raises

SpecYelp == InitYelp /\ [][NextYelp]_vars

(***************************************************************************)
(* scrape_google_maps (src/scraper.py:184-320): one search per (region,    *)
(* query) pair, inside one browser session.  The feed is the environment:  *)
(* each scroll leaves the number of items it shows unchanged or loads one  *)
(* more, up to MaxItems.                                                   *)
(***************************************************************************)
MaxItems == 12       \* most items a results feed ever shows

\* `range(12)` of the scroll loop
ScrollLimit == 12
\* the bound of `scroll_attempt > 2`
StableFrom == 2

S_SFMissionCastro == <<"S","F"," ","M","i","s","s","i","o","n","/","C","a","s","t","r","o">>
S_Near == <<" ","n","e","a","r"," ">>
S_CommaCA == <<",", " ", "C", "A">>
S_CommercialInsurance == <<"c","o","m","m","e","r","c","i","a","l"," ",
                           "i","n","s","u","r","a","n","c","e">>
S_BusinessInsuranceBroker == <<"b","u","s","i","n","e","s","s"," ","i","n","s","u","r","a","n","c","e",
                               " ","b","r","o","k","e","r">>

\* the first two names of GMAPS_REGIONS (18 regions in the code)
GMAPS_REGIONS == <<S_SFDowntown, S_SFMissionCastro>>

\* the first two of `queries` (6 queries in the code)
queries == <<S_CommercialInsurance, S_BusinessInsuranceBroker>>

\* line 223: search_term; the url of line 224 is built from it and from the
\* coordinates of the region, so it is one url per pair
search_term(g, q) == queries[q] \o S_Near \o GMAPS_REGIONS[g] \o S_CommaCA

\* s.split("/")[0]
BeforeSlash(s) ==
    LET hits == {k \in 1..Len(s) : s[k] = "/"}
    IN  IF hits = {} THEN s ELSE SubSeq(s, 1, Min(hits) - 1)

\* s.strip(), for the blanks a region name can hold
Strip(s) ==
    LET solid == {k \in 1..Len(s) : s[k] # " "}
    IN  IF solid = {} THEN << >>
        ELSE SubSeq(s, Min(solid), CHOOSE m \in solid : \A n \in solid : n <= m)

\* line 297 for a listing without address: extract_city_from_address("") is ""
\* (lines 162-163), so the city is region["name"].split("/")[0].strip()
GmCityOfRegion(g) == Strip(BeforeSlash(GMAPS_REGIONS[g]))

\* lines 294-305: the record of a listing that has a name and no other text
GmCompany(name, g, q) ==
    InsuranceCompany(name, GmCityOfRegion(g), S_GoogleMaps,
                     [source_url |-> search_term(g, q)])

\* what page.evaluate may return: the names of the listings
GmListings == {<< >>, <<S_AcmeInsurance>>}

\* a failed query ends the connector
GmAfterFailureStops(g, q) == <<Len(GMAPS_REGIONS) + 1, 1>>

\* the pair after (g, q): query inner loop, region outer loop
GmNextPair(g, q) == IF q < Len(queries) THEN <<g, q + 1>> ELSE <<g + 1, 1>>

\* lines 236 and 314: `continue` goes on with the next pair
GmAfterFailure(g, q) == GmNextPair(g, q)

InitGmaps ==
    /\ prog = "gmaps"
    /\ gi = 1 /\ qi = 1
    /\ gpc = "query"
    /\ feed_items = 0
    /\ scroll_attempt = 0
    /\ prev_count = 0
    /\ grew = FALSE
    /\ attempts = << >>
    /\ gm_outcomes = << >>
    /\ gm_results = << >>
    /\ DedupIdle
    /\ EnrichIdle
    /\ SfIdle
    /\ MainIdle
    /\ YelpIdle
    /\ CdiIdle
    /\ ExtractIdle
    /\ ContactIdle
    /\ ListingIdle
    /\ KeyIdle

GmAtQuery == prog = "gmaps" /\ gpc = "query" /\ gi <= Len(GMAPS_REGIONS)

\* the search of the pair fails and is skipped
GmSkip(kind) ==
    /\ attempts' = Append(attempts, <<gi, qi>>)
    /\ gm_outcomes' = Append(gm_outcomes, [kind |-> kind, stable |-> FALSE])
    /\ gi' = GmAfterFailure(gi, qi)[1]
    /\ qi' = GmAfterFailure(gi, qi)[2]
    /\ UNCHANGED <<prog, gpc, feed_items, scroll_attempt, prev_count, grew, gm_results,
                   notGmapsVars>>

\* line 228: page.goto raises; lines 312-314
GmGotoRaises ==
    /\ GmAtQuery
    /\ GmSkip("error")

\* lines 232-236: wait_for_selector times out
GmFeedTimeout ==
    /\ GmAtQuery
    /\ GmSkip("timeout")

\* lines 228-240: the page loads and the feed appears
GmFeedAppears ==
    /\ GmAtQuery
    /\ attempts' = Append(attempts, <<gi, qi>>)
    /\ feed_items' \in 0..1
    /\ prev_count' = 0
    /\ scroll_attempt' = 0
    /\ grew' = FALSE
    /\ gpc' = "scroll"
    /\ UNCHANGED <<prog, gi, qi, gm_outcomes, gm_results, notGmapsVars>>

\* what .count() can return after one more scroll
CountsAfterScroll == {c \in {feed_items, feed_items + 1} : c <= MaxItems}

\* line 245: `current_count == prev_count and scroll_attempt > 2`
ScrollBreaks(current_count) == current_count = prev_count /\ scroll_attempt > StableFrom

\* lines 242-247: a scroll after which the loop goes on
GmScrollMore ==
    /\ prog = "gmaps" /\ gpc = "scroll"
    /\ scroll_attempt + 1 < ScrollLimit
    /\ \E current_count \in CountsAfterScroll :
          /\ ~ScrollBreaks(current_count)
          /\ feed_items' = current_count
          /\ grew' = (current_count # prev_count)
          /\ prev_count' = current_count
    /\ scroll_attempt' = scroll_attempt + 1
    /\ UNCHANGED <<prog, gi, qi, gpc, attempts, gm_outcomes, gm_results, notGmapsVars>>

\* lines 245-246: the count did not change: `break`
GmScrollStable ==
    /\ prog = "gmaps" /\ gpc = "scroll"
    /\ \E current_count \in CountsAfterScroll :
          /\ ScrollBreaks(current_count)
          /\ feed_items' = current_count
          /\ grew' = (current_count # prev_count)
    /\ gpc' = "extract"
    /\ UNCHANGED <<prog, gi, qi, scroll_attempt, prev_count, attempts, gm_outcomes,
                   gm_results, notGmapsVars>>

\* line 241: the last scroll of range(12), without `break`: the loop is exhausted
GmScrollLimit ==
    /\ prog = "gmaps" /\ gpc = "scroll"
    /\ scroll_attempt + 1 = ScrollLimit
    /\ \E current_count \in CountsAfterScroll :
          /\ ~ScrollBreaks(current_count)
          /\ feed_items' = current_count
          /\ grew' = (current_count # prev_count)
          /\ prev_count' = current_count
    /\ gpc' = "extract"
    /\ UNCHANGED <<prog, gi, qi, scroll_attempt, attempts, gm_outcomes, gm_results,
                   notGmapsVars>>

\* a browser call of lines 239-250 raises; lines 312-314
GmQueryRaises ==
    /\ prog = "gmaps" /\ gpc \in {"scroll", "extract"}
    /\ gm_outcomes' = Append(gm_outcomes, [kind |-> "error", stable |-> FALSE])
    /\ gi' = GmAfterFailure(gi, qi)[1]
    /\ qi' = GmAfterFailure(gi, qi)[2]
    /\ gpc' = "query"
    /\ UNCHANGED <<prog, feed_items, scroll_attempt, prev_count, grew, attempts,
                   gm_results, notGmapsVars>>

\* lines 250-316: the batch extraction, and one record appended per listing
GmExtract ==
    /\ prog = "gmaps" /\ gpc = "extract"
    /\ \E listings_data \in GmListings :
          gm_results' = gm_results \o
              [k \in 1..Len(listings_data) |-> GmCompany(listings_data[k], gi, qi)]
    /\ gm_outcomes' = Append(gm_outcomes, [kind |-> "extracted", stable |-> ~grew])
    /\ gi' = GmNextPair(gi, qi)[1]
    /\ qi' = GmNextPair(gi, qi)[2]
    /\ gpc' = "query"
    /\ UNCHANGED <<prog, feed_items, scroll_attempt, prev_count, grew, attempts,
                   notGmapsVars>>

\* line 318: both loops are exhausted
GmReturn ==
    /\ prog = "gmaps" /\ gpc = "query" /\ gi > Len(GMAPS_REGIONS)
    /\ gpc' = "done"
    /\ UNCHANGED <<prog, gi, qi, feed_items, scroll_attempt, prev_count, grew, attempts,
                   gm_outcomes, gm_results, notGmapsVars>>

NextGmaps ==
    \/ GmGotoRaises
    \/ GmFeedTimeout
    \/ GmFeedAppears
    \/ GmScrollMore
    \/ GmScrollStable
    \/ GmScrollLimit
    \/ GmQueryRaises
    \/ GmExtract
    \/ GmReturn

SpecGmaps == InitGmaps /\ [][NextGmaps]_vars

(***************************************************************************)
(* scrape_cdi_pdf (src/scraper.py:616-688).  A page is the text            *)
(* page.extract_text() returns for it: its lines joined by "\n", with no   *)
(* "\n" after the last line; "" stands for a page without text (None).     *)
(***************************************************************************)
MaxPages == 2        \* most pages of the document

\* the bound of `len(line) < 5`
MinLineLength == 5
\* the bound of `len(name) < 4`
MinNameLength == 4
\* the bounds of `\d{4,6}`
NaicMinDigits == 4
NaicMaxDigits == 6

NL == "\n"

\* the upper-case letter of each lower-case letter
UpperOf == [c \in Range(LowerLetters) |->
               UpperLetters[CHOOSE i \in 1..26 : LowerLetters[i] = c]]

\* str.upper()
Upper(s) == [i \in 1..Len(s) |-> IF s[i] \in DOMAIN UpperOf THEN UpperOf[s[i]] ELSE s[i]]

\* "\n".join(page_lines)
RECURSIVE JoinLines(_)
JoinLines(page_lines) ==
    IF page_lines = << >> THEN << >>
    ELSE IF Len(page_lines) = 1 THEN page_lines[1]
    ELSE page_lines[1] \o <<NL>> \o JoinLines(Tail(page_lines))

\* s.split("\n")
RECURSIVE SplitLines(_)
SplitLines(s) ==
    LET hits == {k \in 1..Len(s) : s[k] = NL}
    IN  IF hits = {} THEN <<s>>
        ELSE <<SubSeq(s, 1, Min(hits) - 1)>> \o SplitLines(SubSeq(s, Min(hits) + 1, Len(s)))

\* lines 658-661: the phrases of header and footer lines
HeaderPhrases ==
    << <<"A","D","M","I","T","T","E","D"," ","I","N","S","U","R","E","R","S">>,
       <<"C","O","M","P","A","N","Y"," ","N","A","M","E">>,
       <<"P","A","G","E"," ">>,
       <<"S","T","A","T","E"," ","O","F">>,
       <<"S","U","B","J","E","C","T"," ","T","O">>,
       <<"N","A","I","C"," ","N","U","M","B","E","R">>,
       <<"I","R","I","-">>,
       <<"S","U","P","P","L","E","M","E","N","T","A","L">> >>

\* `any(skip in line.upper() for skip in [...])`
IsHeader(line) ==
    LET up == Upper(line)
    IN  \E k \in 1..Len(HeaderPhrases) : IsSubstr(HeaderPhrases[k], up)

\* the number of digits the line ends with
RECURSIVE TrailingDigits(_)
TrailingDigits(s) ==
    IF s = << >> \/ s[Len(s)] \notin Digits THEN 0
    ELSE 1 + TrailingDigits(SubSeq(s, 1, Len(s) - 1))

\* line 665: re.match(r"^(.+?)\s+(\d{4,6})\s*$", line) on a stripped line: the
\* line ends with 4 to 6 digits, preceded by blanks, preceded by the name
NaicMatches(line) ==
    LET d == TrailingDigits(line)
    IN  /\ d >= NaicMinDigits /\ d <= NaicMaxDigits
        /\ Len(line) > d + 1
        /\ line[Len(line) - d] = " "

\* lines 666-671: the name and the NAIC code of a line
NameOfLine(line) ==
    IF NaicMatches(line)
    THEN Strip(SubSeq(line, 1, Len(line) - TrailingDigits(line) - 1))
    ELSE Strip(line)
NaicOfLine(line) ==
    IF NaicMatches(line)
    THEN SubSeq(line, Len(line) - TrailingDigits(line) + 1, Len(line))
    ELSE << >>

S_NaicPrefix == <<"N","A","I","C",":"," ">>

\* lines 676-682: the record of a line
CdiCompany(line) ==
    InsuranceCompany(NameOfLine(line), << >>, S_CDI,
        [source_url |-> S_Url,
         categories |-> IF NaicOfLine(line) # << >>
                        THEN S_NaicPrefix \o NaicOfLine(line) ELSE << >>])

L_Ace == <<"A","C","E"," ","I","N","S"," ","C","O"," ","2","2","6","6","7">>   \* "ACE INS CO 22667"
L_Zed == <<"Z","e","d"," ","M","u","t","u","a","l">>   \* "Zed Mutual"
L_Page == <<"P","a","g","e"," ","1"," ","o","f"," ","2">>   \* "Page 1 of 2"
L_Acme == <<"A","C","M","E"," ","C","O"," "," ","1","2","3","4">>   \* "ACME CO  1234"
L_State == <<"S","T","A","T","E"," ","O","F"," ","X">>   \* "STATE OF X"
L_Short == <<"A","B">>   \* "AB"
L_Abc == <<"A","B","C"," ","1","2","3","4","5">>   \* "ABC 12345"
L_Beta == <<" ","B","E","T","A"," ","I","N","S"," ","1","2","3","4","5","6">>   \* " BETA INS 123456"

\* the pages a document is made of, each as its lines
PagePool ==
    << <<L_Ace, L_Zed>>,
       <<L_Page, L_Acme>>,
       <<L_Beta, L_State>>,
       << >>,
       <<L_Short, L_Abc>> >>

\* lines 647-649: `all_text += page.extract_text() or ""` for every page
RECURSIVE all_text(_)
all_text(pages) ==
    IF pages = << >> THEN << >>
    ELSE JoinLines(PagePool[Head(pages)]) \o all_text(Tail(pages))

InitCdi ==
    /\ prog = "cdi"
    /\ pdf_pages \in SeqsUpTo(1..Len(PagePool), MaxPages)
    /\ lines = << >>
    /\ li = 1
    /\ cdi_results = << >>
    /\ cpc = "download"
    /\ DedupIdle
    /\ EnrichIdle
    /\ SfIdle
    /\ MainIdle
    /\ YelpIdle
    /\ GmapsIdle
    /\ ExtractIdle
    /\ ContactIdle
    /\ ListingIdle
    /\ KeyIdle

\* lines 625-644 and 687-688: the download fails or raises, or pdfplumber is
\* missing: the connector returns without a record
CdiNoParse ==
    /\ prog = "cdi" /\ cpc = "download"
    /\ cpc' = "done"
    /\ UNCHANGED <<prog, pdf_pages, lines, li, cdi_results, notCdiVars>>

\* lines 646-652: the text of the pages is concatenated and split into lines
CdiExtractText ==
    /\ prog = "cdi" /\ cpc = "download"
    /\ lines' = SplitLines(all_text(pdf_pages))
    /\ li' = 1
    /\ cpc' = "lines"
    /\ UNCHANGED <<prog, pdf_pages, cdi_results, notCdiVars>>

CdiAtLine == prog = "cdi" /\ cpc = "lines" /\ li <= Len(lines)

\* lines 654-656: the stripped line is empty or shorter than 5
CdiSkipShortLine ==
    /\ CdiAtLine
    /\ Len(Strip(lines[li])) < MinLineLength
    /\ li' = li + 1
    /\ UNCHANGED <<prog, pdf_pages, lines, cdi_results, cpc, notCdiVars>>

\* lines 658-662: the line holds a header phrase
CdiSkipHeader ==
    /\ CdiAtLine
    /\ Len(Strip(lines[li])) >= MinLineLength
    /\ IsHeader(Strip(lines[li]))
    /\ li' = li + 1
    /\ UNCHANGED <<prog, pdf_pages, lines, cdi_results, cpc, notCdiVars>>

\* lines 673-674: the name left after the NAIC code is shorter than 4
CdiSkipShortName ==
    /\ CdiAtLine
    /\ Len(Strip(lines[li])) >= MinLineLength
    /\ ~IsHeader(Strip(lines[li]))
    /\ Len(NameOfLine(Strip(lines[li]))) < MinNameLength
    /\ li' = li + 1
    /\ UNCHANGED <<prog, pdf_pages, lines, cdi_results, cpc, notCdiVars>>

\* lines 676-683: a record is appended
CdiAppend ==
    /\ CdiAtLine
    /\ Len(Strip(lines[li])) >= MinLineLength
    /\ ~IsHeader(Strip(lines[li]))
    /\ Len(NameOfLine(Strip(lines[li]))) >= MinNameLength
    /\ cdi_results' = Append(cdi_results, CdiCompany(Strip(lines[li])))
    /\ li' = li + 1
    /\ UNCHANGED <<prog, pdf_pages, lines, cpc, notCdiVars>>

\* the loop over the lines is exhausted
CdiReturn ==
    /\ prog = "cdi" /\ cpc = "lines" /\ li > Len(lines)
    /\ cpc' = "done"
    /\ UNCHANGED <<prog, pdf_pages, lines, li, cdi_results, notCdiVars>>

NextCdi ==
    \/ CdiNoParse
    \/ CdiExtractText
    \/ CdiSkipShortLine
    \/ CdiSkipHeader
    \/ CdiSkipShortName
    \/ CdiAppend
    \/ CdiReturn

SpecCdi == InitCdi /\ [][NextCdi]_vars

(***************************************************************************)
(* extract_emails (src/enrich_sf.py:39-60), from the text it is given: the *)
(* matches of the pattern, the filter loop and the loop that drops         *)
(* duplicates.  The function is called twice on the same text.             *)
(***************************************************************************)
MaxTokens == 2       \* most pieces of TextPool in a text
MaxCalls == 2        \* calls of extract_emails on one text

Letters == Range(UpperLetters) \cup Range(LowerLetters)
\* [a-zA-Z0-9._%+-]
LocalChars == Letters \cup Digits \cup {".", "_", "%", "+", "-"}
\* [a-zA-Z0-9.-]
DomainChars == Letters \cup Digits \cup {".", "-"}

Max(S) == CHOOSE x \in S : \A y \in S : y <= x

\* the first position from p on whose character is not in cs, Len(s) + 1 if none
RECURSIVE RunEnd(_, _, _)
RunEnd(s, p, cs) ==
    IF p > Len(s) THEN p
    ELSE IF s[p] \notin cs THEN p
    ELSE RunEnd(s, p + 1, cs)

\* the last position of the match of the pattern that starts at p, 0 if there is
\* none.  [a-zA-Z0-9._%+-]+ takes the whole run of such characters, which "@"
\* must follow; [a-zA-Z0-9.-]+ takes the run after "@" and gives characters back
\* until a "." with two letters after it is next, so the "." is the last such
\* one of the run with a character of the run before it; [a-zA-Z]{2,} takes the
\* letters that follow.
MatchEnd(s, p) ==
    LET q == RunEnd(s, p, LocalChars)
        r == RunEnd(s, q + 1, DomainChars)
        dots == {d \in (q + 2)..(r - 1) :
                    /\ s[d] = "."
                    /\ d + 2 <= Len(s)
                    /\ s[d + 1] \in Letters
                    /\ s[d + 2] \in Letters}
    IN  IF q = p \/ q > Len(s) THEN 0
        ELSE IF s[q] # "@" THEN 0
        ELSE IF dots = {} THEN 0
        ELSE RunEnd(s, Max(dots) + 1, Letters) - 1

\* re.findall from position p on: the leftmost match, then the matches after its
\* end.  No match starts inside a run of local-part characters whose first
\* position has none, nor at the character after the run.
RECURSIVE FindallFrom(_, _)
FindallFrom(s, p) ==
    IF p > Len(s) THEN << >>
    ELSE IF MatchEnd(s, p) = 0 THEN FindallFrom(s, RunEnd(s, p, LocalChars) + 1)
    ELSE <<SubSeq(s, p, MatchEnd(s, p))>> \o FindallFrom(s, MatchEnd(s, p) + 1)

\* line 41: re.findall(pattern, html)
findall(s) == FindallFrom(s, 1)

S_At_Realbiz == <<"@","r","e","a","l","b","i","z",".","c","o","m">>   \* "@realbiz.com"
\* an address of n characters
AddressOfLength(n) == [i \in 1..(n - Len(S_At_Realbiz)) |-> "a"] \o S_At_Realbiz

T_Example == <<"c","o","n","t","a","c","t"," ","u","s"," ","a","t"," ","i","n","f","o","@","e","x","a","m","p","l","e",".","c","o","m"," ","o","r"," ","s","a","l","e","s","@","r","e","a","l","b","i","z",".","c","o","m">>   \* "contact us at info@example.com or sales@realbiz.com"
T_Bob == <<"m","a","i","l"," ","b","o","b","@","a","c","m","e",".","o","r","g",".">>   \* "mail bob@acme.org."
T_NoMatch == <<"a","@","b",".","c"," ","c","a","l","l"," ","5","5","5">>   \* "a@b.c call 555"

\* the pieces a text is made of
TextPool ==
    << T_Example,
       S_SalesRealbiz,
       S_SalesRealbizCaps,
       AddressOfLength(EmailLengthLimit - 1),
       AddressOfLength(EmailLengthLimit),
       T_Bob,
       T_NoMatch,
       AddressOfLength(EmailLengthLimit + 1) >>

\* the text made of the pieces, one blank between two pieces
RECURSIVE Html(_)
Html(tokens) ==
    IF tokens = << >> THEN << >>
    ELSE IF Len(tokens) = 1 THEN TextPool[tokens[1]]
    ELSE TextPool[tokens[1]] \o <<" ">> \o Html(Tail(tokens))

\* an address is kept whatever its length
KeepsEmailAnyLength(em) == NotJunk(em, ExtractJunk)

\* line 51: `not any(j in em_lower for j in junk) and len(em) < 80`
KeepsEmail(em) == NotJunk(em, ExtractJunk) /\ Len(em) < EmailLengthLimit

InitExtract ==
    /\ prog = "extract"
    /\ html_tokens \in SeqsUpTo(1..Len(TextPool), MaxTokens)
    /\ em_raw = << >>
    /\ em_filtered = << >>
    /\ em_seen = {}
    /\ em_result = << >>
    /\ xi = 1
    /\ xpc = "call"
    /\ calls = 0
    /\ first_result = << >>
    /\ DedupIdle
    /\ EnrichIdle
    /\ SfIdle
    /\ MainIdle
    /\ YelpIdle
    /\ GmapsIdle
    /\ CdiIdle
    /\ ContactIdle
    /\ ListingIdle
    /\ KeyIdle

\* lines 41-48: the matches are collected and `filtered` starts empty
ExFindall ==
    /\ prog = "extract" /\ xpc = "call"
    /\ em_raw' = findall(Html(html_tokens))
    /\ em_filtered' = << >>
    /\ xi' = 1
    /\ xpc' = "filter"
    /\ UNCHANGED <<prog, html_tokens, em_seen, em_result, calls, first_result,
                   notExtractVars>>

ExAtRaw == prog = "extract" /\ xpc = "filter" /\ xi <= Len(em_raw)

\* lines 49-52: the match passes the test and is appended to `filtered`
ExFilterKeep ==
    /\ ExAtRaw
    /\ KeepsEmail(em_raw[xi])
    /\ em_filtered' = Append(em_filtered, em_raw[xi])
    /\ xi' = xi + 1
    /\ UNCHANGED <<prog, html_tokens, em_raw, em_seen, em_result, xpc, calls,
                   first_result, notExtractVars>>

\* lines 49-51: the match fails the test
ExFilterDrop ==
    /\ ExAtRaw
    /\ ~KeepsEmail(em_raw[xi])
    /\ xi' = xi + 1
    /\ UNCHANGED <<prog, html_tokens, em_raw, em_filtered, em_seen, em_result, xpc,
                   calls, first_result, notExtractVars>>

\* lines 54-55: the first loop is exhausted; `seen` and `result` start empty
ExFilterEnd ==
    /\ prog = "extract" /\ xpc = "filter" /\ xi > Len(em_raw)
    /\ em_seen' = {}
    /\ em_result' = << >>
    /\ xi' = 1
    /\ xpc' = "dedupe"
    /\ UNCHANGED <<prog, html_tokens, em_raw, em_filtered, calls, first_result,
                   notExtractVars>>

ExAtFiltered == prog = "extract" /\ xpc = "dedupe" /\ xi <= Len(em_filtered)

\* lines 56-59: the lowercased address was not seen; it is added and appended
ExDedupeKeep ==
    /\ ExAtFiltered
    /\ Lower(em_filtered[xi]) \notin em_seen
    /\ em_seen' = em_seen \cup {Lower(em_filtered[xi])}
    /\ em_result' = Append(em_result, em_filtered[xi])
    /\ xi' = xi + 1
    /\ UNCHANGED <<prog, html_tokens, em_raw, em_filtered, xpc, calls, first_result,
                   notExtractVars>>

\* lines 56-57: the lowercased address was seen
ExDedupeSkip ==
    /\ ExAtFiltered
    /\ Lower(em_filtered[xi]) \in em_seen
    /\ xi' = xi + 1
    /\ UNCHANGED <<prog, html_tokens, em_raw, em_filtered, em_seen, em_result, xpc,
                   calls, first_result, notExtractVars>>

\* line 60: `return result`
ExReturn ==
    /\ prog = "extract" /\ xpc = "dedupe" /\ xi > Len(em_filtered)
    /\ xpc' = "returned"
    /\ calls' = calls + 1
    /\ first_result' = IF calls = 0 THEN em_result ELSE first_result
    /\ UNCHANGED <<prog, html_tokens, em_raw, em_filtered, em_seen, em_result, xi,
                   notExtractVars>>

\* the function is called again on the same text
ExCallAgain ==
    /\ prog = "extract" /\ xpc = "returned"
    /\ calls < MaxCalls
    /\ xpc' = "call"
    /\ UNCHANGED <<prog, html_tokens, em_raw, em_filtered, em_seen, em_result, xi,
                   calls, first_result, notExtractVars>>

NextExtract ==
    \/ ExFindall
    \/ ExFilterKeep
    \/ ExFilterDrop
    \/ ExFilterEnd
    \/ ExDedupeKeep
    \/ ExDedupeSkip
    \/ ExReturn
    \/ ExCallAgain

SpecExtract == InitExtract /\ [][NextExtract]_vars

(***************************************************************************)
(* scrape_website_for_email (src/enrich_sf.py:63-93), one requests.get per *)
(* step.  A response is one of Responses; resp.url, the address of the     *)
(* page that answered, is the requested one or that of a redirect.         *)
(***************************************************************************)
S_Web1Home == <<"h","t","t","p",":","/","/","a","c","m","e",".","t","e","s","t","/","h","o","m","e">>   \* "http://acme.test/home"
S_RedirectUrl == <<"h","t","t","p","s",":","/","/","w","w","w",".","a","c","m","e",".","t","e","s","t","/","e","n","/">>   \* "https://www.acme.test/en/"
S_SlashContact == <<"/","c","o","n","t","a","c","t">>   \* "/contact"
S_SlashContactDash == <<"/","c","o","n","t","a","c","t","-","u","s">>   \* "/contact-us"
S_SlashAbout == <<"/","a","b","o","u","t">>   \* "/about"
S_SlashAboutDash == <<"/","a","b","o","u","t","-","u","s">>   \* "/about-us"
S_SlashContactus == <<"/","c","o","n","t","a","c","t","u","s">>   \* "/contactus"

\* the suffixes with the about pages first
ContactSuffixesAboutFirst ==
    <<S_SlashAbout, S_SlashAboutDash, S_SlashContact, S_SlashContactDash, S_SlashContactus>>

\* line 80: the list of `for suffix in [...]`
ContactSuffixes ==
    <<S_SlashContact, S_SlashContactDash, S_SlashAbout, S_SlashAboutDash, S_SlashContactus>>

\* lines 78-79: f"{parsed.scheme}://{parsed.netloc}" of urlparse(url), for a url
\* that holds "://": the text up to the first "/", "?" or "#" after it
BaseOf(url) ==
    LET k == Min({n \in 1..(Len(url) - 2) : SubSeq(url, n, n + 2) = <<":", "/", "/">>})
    IN  SubSeq(url, 1, RunEnd(url, k + 3, Range(url) \ {"/", "?", "#"}) - 1)

\* the sites scrape_website_for_email is called with
WebsitePool == {<< >>, S_WebNoScheme, S_Web1, S_Web2, S_Web1Home}

\* resp.url for a request of `url`
FinalUrls(url) == {url, S_RedirectUrl}

\* `if r2.status_code == 200: emails = extract_emails(r2.text); if emails:`
PageYields(resp) ==
    IF resp.kind = "http" /\ resp.status_code = 200
    THEN extract_emails(resp.emails) # << >>
    ELSE FALSE

\* one requests.get: the address asked for, resp.url and the response
Get(url, final, resp) == [url |-> url, final |-> final, resp |-> resp]

InitContact ==
    /\ prog = "contact"
    /\ sw_website \in WebsitePool
    /\ sw_base = << >>
    /\ sw_gets = << >>
    /\ sw_i = 1
    /\ sw_pc = "call"
    /\ sw_email = << >>
    /\ DedupIdle
    /\ EnrichIdle
    /\ SfIdle
    /\ MainIdle
    /\ YelpIdle
    /\ GmapsIdle
    /\ CdiIdle
    /\ ExtractIdle
    /\ ListingIdle
    /\ KeyIdle

SwUsable == sw_website # << >> /\ StartsWith(sw_website, S_http)

\* lines 65-66: no usable website: "" is returned without a request
SwNoWebsite ==
    /\ prog = "contact" /\ sw_pc = "call"
    /\ ~SwUsable
    /\ sw_pc' = "returned"
    /\ sw_email' = << >>
    /\ UNCHANGED <<prog, sw_website, sw_base, sw_gets, sw_i, notContactVars>>

\* lines 69-71 and 90-93: the request of the site raises or answers another
\* status than 200: "" is returned
SwMainFails ==
    /\ prog = "contact" /\ sw_pc = "call"
    /\ SwUsable
    /\ \E resp \in {ErrorResponse} \cup Non200Responses :
          sw_gets' = Append(sw_gets, Get(sw_website, sw_website, resp))
    /\ sw_pc' = "returned"
    /\ sw_email' = << >>
    /\ UNCHANGED <<prog, sw_website, sw_base, sw_i, notContactVars>>

\* lines 73-75: the page of the site yields an e-mail: the first one is returned
SwMainYields ==
    /\ prog = "contact" /\ sw_pc = "call"
    /\ SwUsable
    /\ \E resp \in OkResponses : \E final \in FinalUrls(sw_website) :
          /\ PageYields(resp)
          /\ sw_gets' = Append(sw_gets, Get(sw_website, final, resp))
          /\ sw_email' = extract_emails(resp.emails)[1]
    /\ sw_pc' = "returned"
    /\ UNCHANGED <<prog, sw_website, sw_base, sw_i, notContactVars>>

\* lines 73-79: the page of the site yields no e-mail: `base` is set from resp.url
SwMainEmpty ==
    /\ prog = "contact" /\ sw_pc = "call"
    /\ SwUsable
    /\ \E resp \in OkResponses : \E final \in FinalUrls(sw_website) :
          /\ ~PageYields(resp)
          /\ sw_gets' = Append(sw_gets, Get(sw_website, final, resp))
          /\ sw_base' = BaseOf(final)
    /\ sw_i' = 1
    /\ sw_pc' = "suffixes"
    /\ UNCHANGED <<prog, sw_website, sw_email, notContactVars>>

SwAtSuffix == prog = "contact" /\ sw_pc = "suffixes" /\ sw_i <= Len(ContactSuffixes)

\* lines 81-86: the contact page yields an e-mail: the first one is returned
SwSuffixYields ==
    /\ SwAtSuffix
    /\ \E resp \in OkResponses :
          /\ PageYields(resp)
          /\ sw_gets' = Append(sw_gets,
                           Get(sw_base \o ContactSuffixes[sw_i],
                               sw_base \o ContactSuffixes[sw_i], resp))
          /\ sw_email' = extract_emails(resp.emails)[1]
    /\ sw_pc' = "returned"
    /\ UNCHANGED <<prog, sw_website, sw_base, sw_i, notContactVars>>

\* lines 81-88: the request of the contact page raises, answers another status
\* than 200 or yields no e-mail: the next suffix is tried
SwSuffixSkipped ==
    /\ SwAtSuffix
    /\ \E resp \in Responses :
          /\ ~PageYields(resp)
          /\ sw_gets' = Append(sw_gets,
                           Get(sw_base \o ContactSuffixes[sw_i],
                               sw_base \o ContactSuffixes[sw_i], resp))
    /\ sw_i' = sw_i + 1
    /\ UNCHANGED <<prog, sw_website, sw_base, sw_pc, sw_email, notContactVars>>

\* line 93: the suffixes are exhausted: "" is returned
SwNothingFound ==
    /\ prog = "contact" /\ sw_pc = "suffixes" /\ sw_i > Len(ContactSuffixes)
    /\ sw_pc' = "returned"
    /\ sw_email' = << >>
    /\ UNCHANGED <<prog, sw_website, sw_base, sw_gets, sw_i, notContactVars>>

NextContact ==
    \/ SwNoWebsite
    \/ SwMainFails
    \/ SwMainYields
    \/ SwMainEmpty
    \/ SwSuffixYields
    \/ SwSuffixSkipped
    \/ SwNothingFound

SpecContact == InitContact /\ [][NextContact]_vars

(***************************************************************************)
(* One map listing and one registry line, from the page to deduplicate:    *)
(* the line loop of the JavaScript extraction (src/scraper.py:270-281, and *)
(* its variant in src/test_gmaps.py:21-27), the record scrape_google_maps  *)
(* makes of the listing (lines 292-307), the record scrape_cdi_pdf makes   *)
(* of the line (lines 676-683), then deduplicate on the two.  The listings *)
(* hold no rating and no phone number.                                     *)
(***************************************************************************)
\* the bounds of `line.length > 3 && line.length < 50`
CategoryMinLength == 3
CategoryMaxLength == 50
\* the digits of `\d{5}` and of `-\d{4}`
ZipDigits == 5
ZipExtraDigits == 4

\* [A-Za-z\s], for the white space an address holds
CityChars == Letters \cup {" "}
\* \w
WordChars == Letters \cup Digits \cup {"_"}

\* the positions of the commas of s
Commas(s) == {p \in 1..Len(s) : s[p] = ","}

\* "CA" stands at position f of s
CAAt(s, f) == IF f + 1 <= Len(s) THEN s[f] = "C" /\ s[f + 1] = "A" ELSE FALSE

\* the run of [A-Za-z\s] after the comma at p
CityRun(s, p) == SubSeq(s, p + 1, RunEnd(s, p + 1, CityChars) - 1)

\* line 165: `,\s*([A-Za-z\s]+),\s*CA` matches at the comma at p: a non-empty run
\* of letters and blanks, a comma, blanks, "CA"
CityCommaMatch(s, p) ==
    LET e == RunEnd(s, p + 1, CityChars)
    IN  IF e = p + 1 \/ e > Len(s) THEN FALSE
        ELSE IF s[e] # "," THEN FALSE
        ELSE CAAt(s, RunEnd(s, e + 1, {" "}))

\* line 169: `,\s*([A-Za-z\s]+)\s+CA` matches at the comma at p: the places in the
\* run where " CA" follows at least one character
CityBlankHits(s, p) ==
    LET R == CityRun(s, p)
    IN  {c \in 3..(Len(R) - 1) : R[c - 1] = " " /\ R[c] = "C" /\ R[c + 1] = "A"}

\* extract_city_from_address (lines 160-172); group(1).strip() is the run, or its
\* part before the last " CA", without the blanks around it
extract_city_from_address(address) ==
    LET m1 == {p \in Commas(address) : CityCommaMatch(address, p)}
        m2 == {p \in Commas(address) : CityBlankHits(address, p) # {}}
    IN  IF address = << >> THEN << >>
        ELSE IF m1 # {} THEN Strip(CityRun(address, Min(m1)))
        ELSE IF m2 # {}
        THEN Strip(SubSeq(CityRun(address, Min(m2)), 1,
                          Max(CityBlankHits(address, Min(m2))) - 2))
        ELSE << >>

\* n digits stand at positions p..p+n-1 of s
DigitsAt(s, p, n) == IF p + n - 1 <= Len(s) THEN \A k \in p..(p + n - 1) : s[k] \in Digits ELSE FALSE

\* \b after position p - 1, for a digit before or after it
BoundaryAt(s, p) == IF p < 1 \/ p > Len(s) THEN TRUE ELSE s[p] \notin WordChars

\* the length of the match of `\b(\d{5}(?:-\d{4})?)\b` that starts at p, 0 if none
ZipMatch(s, p) ==
    IF ~DigitsAt(s, p, ZipDigits) \/ ~BoundaryAt(s, p - 1) THEN 0
    ELSE IF /\ p + ZipDigits <= Len(s)
            /\ DigitsAt(s, p + ZipDigits + 1, ZipExtraDigits)
            /\ BoundaryAt(s, p + ZipDigits + 1 + ZipExtraDigits)
            /\ s[p + ZipDigits] = "-"
    THEN ZipDigits + 1 + ZipExtraDigits
    ELSE IF BoundaryAt(s, p + ZipDigits) THEN ZipDigits
    ELSE 0

\* extract_zip (lines 175-177)
extract_zip(address) ==
    LET hits == {p \in 1..Len(address) : ZipMatch(address, p) # 0}
    IN  IF hits = {} THEN << >>
        ELSE SubSeq(address, Min(hits), Min(hits) + ZipMatch(address, Min(hits)) - 1)

\* /^\d+\s/.test(line)
StartsWithNumber(line) ==
    LET d == RunEnd(line, 1, Digits)
    IN  IF d = 1 \/ d > Len(line) THEN FALSE ELSE line[d] = " "

\* /,\s*CA/.test(line)
HasCommaCA(line) == \E p \in Commas(line) : CAAt(line, RunEnd(line, p + 1, {" "}))

\* line 273: the line is address-shaped
AddressShaped(line) == StartsWithNumber(line) \/ HasCommaCA(line)

S_Open == <<"O","p","e","n">>   \* "Open"
S_Closed == <<"C","l","o","s","e","d">>   \* "Closed"
S_hours == <<"h","o","u","r","s">>   \* "hours"
S_Middot == <<"·">>

\* lines 275-278: the test of the `else if` branch
CategoryShaped(line, name, category) ==
    /\ category = << >>
    /\ line # name
    /\ \E k \in 1..Len(line) : line[k] \notin Digits \cup {"."}
    /\ line[1] # "("
    /\ Len(line) > CategoryMinLength
    /\ Len(line) < CategoryMaxLength
    /\ ~IsSubstr(S_Open, line)
    /\ ~IsSubstr(S_Closed, line)
    /\ ~IsSubstr(S_hours, line)
    /\ ~IsSubstr(S_Middot, line)

S_AceInsCo == <<"A","C","E"," ","I","N","S"," ","C","O">>   \* "ACE INS CO"
S_ZedMutual == <<"Z","e","d"," ","M","u","t","u","a","l">>   \* "Zed Mutual"
A_Oakland == <<"1"," ","M","a","i","n"," ","S","t",","," ","O","a","k","l","a","n","d",","," ","C","A"," ","9","4","6","0","7">>   \* "1 Main St, Oakland, CA 94607"
A_Pine == <<"5","0","0"," ","P","i","n","e"," ","S","t">>   \* "500 Pine St"
A_Suite == <<"S","u","i","t","e"," ","2",","," ","S","a","n"," ","F","r","a","n","c","i","s","c","o",","," ","C","A"," ","9","4","1","0","4">>   \* "Suite 2, San Francisco, CA 94104"
A_NoCity == <<"1","2"," ","E","l","m",","," ",","," ","C","A">>   \* "12 Elm, , CA"
A_Fremont == <<"9"," ","E","l","m"," ","A","v","e",","," ","F","r","e","m","o","n","t"," ","C","A"," ","9","4","5","3","8","-","1","2","3","4">>   \* "9 Elm Ave, Fremont CA 94538-1234"
T_Agency == <<"I","n","s","u","r","a","n","c","e"," ","a","g","e","n","c","y">>   \* "Insurance agency"
T_Broker == <<"I","n","s","u","r","a","n","c","e"," ","b","r","o","k","e","r">>   \* "Insurance broker"
T_OpenNow == <<"O","p","e","n"," ","n","o","w">>   \* "Open now"

\* the listings of the feed: the aria-label of the link and the lines of innerText
\* (trimmed, the empty ones left out)
ListingPool ==
    << [name |-> S_AcmeInsurance,
        lines |-> <<S_AcmeInsurance, T_Agency, A_Oakland, T_OpenNow>>],
       [name |-> S_AceInsCo, lines |-> <<S_AceInsCo, A_Pine, T_Broker, A_Suite>>],
       [name |-> S_AcmeInsurance, lines |-> <<S_AcmeInsurance, T_Broker>>],
       [name |-> S_AceInsCo, lines |-> <<S_AceInsCo, A_NoCity>>],
       [name |-> S_ZedMutual, lines |-> <<S_ZedMutual, A_Fremont, S_Closed>>] >>

\* lines of the registry that scrape_cdi_pdf makes a record of
RegistryLines == <<L_Ace, S_ZedMutual, S_AcmeInsurance>>

\* the city is the one found in the address, "" if none
GmCityNoFallback(raw_addr, g) == extract_city_from_address(raw_addr)

\* line 297: extract_city_from_address(raw_addr) or region["name"].split("/")[0].strip()
GmCity(raw_addr, g) ==
    IF extract_city_from_address(raw_addr) # << >>
    THEN extract_city_from_address(raw_addr)
    ELSE Strip(BeforeSlash(GMAPS_REGIONS[g]))

\* lines 293-305: the record of a listing
GmListingCompany(name, raw_addr, category, g, q) ==
    InsuranceCompany(name, GmCity(raw_addr, g), S_GoogleMaps,
        [address |-> raw_addr, zip_code |-> extract_zip(raw_addr),
         categories |-> category, source_url |-> search_term(g, q)])

InitListing ==
    /\ \/ /\ prog = "listing"
          /\ lst_region \in 1..Len(GMAPS_REGIONS)
          /\ reg_line \in 1..Len(RegistryLines)
       \/ /\ prog = "test_gmaps"
          /\ lst_region = 1
          /\ reg_line = 1
    /\ lst_item \in 1..Len(ListingPool)
    /\ lj = 1
    /\ js_address = << >>
    /\ js_category = << >>
    /\ jpc = "lines"
    /\ lst_results = << >>
    /\ lst_unique = << >>
    /\ DedupIdle
    /\ EnrichIdle
    /\ SfIdle
    /\ MainIdle
    /\ YelpIdle
    /\ GmapsIdle
    /\ CdiIdle
    /\ ExtractIdle
    /\ ContactIdle
    /\ KeyIdle

JsLines == ListingPool[lst_item].lines

JsAtLine == prog \in {"listing", "test_gmaps"} /\ jpc = "lines" /\ lj <= Len(JsLines)

\* scraper.py lines 273-274: `address = line`, and the loop goes on
JsAddressLine ==
    /\ JsAtLine /\ prog = "listing"
    /\ AddressShaped(JsLines[lj])
    /\ js_address' = JsLines[lj]
    /\ lj' = lj + 1
    /\ UNCHANGED <<prog, lst_item, lst_region, reg_line, js_category, jpc, lst_results,
                   lst_unique, notListingVars>>

\* test_gmaps.py lines 23-25: `address = line.trim(); break`
JsAddressLineBreaks ==
    /\ JsAtLine /\ prog = "test_gmaps"
    /\ AddressShaped(JsLines[lj])
    /\ js_address' = JsLines[lj]
    /\ jpc' = "pushed"
    /\ UNCHANGED <<prog, lst_item, lst_region, reg_line, lj, js_category, lst_results,
                   lst_unique, notListingVars>>

\* scraper.py lines 275-279: `category = line`
JsCategoryLine ==
    /\ JsAtLine /\ prog = "listing"
    /\ ~AddressShaped(JsLines[lj])
    /\ CategoryShaped(JsLines[lj], ListingPool[lst_item].name, js_category)
    /\ js_category' = JsLines[lj]
    /\ lj' = lj + 1
    /\ UNCHANGED <<prog, lst_item, lst_region, reg_line, js_address, jpc, lst_results,
                   lst_unique, notListingVars>>

\* the line passes neither test
JsOtherLine ==
    /\ JsAtLine
    /\ ~AddressShaped(JsLines[lj])
    /\ IF prog = "listing"
       THEN ~CategoryShaped(JsLines[lj], ListingPool[lst_item].name, js_category)
       ELSE TRUE
    /\ lj' = lj + 1
    /\ UNCHANGED <<prog, lst_item, lst_region, reg_line, js_address, js_category, jpc,
                   lst_results, lst_unique, notListingVars>>

\* scraper.py line 286, test_gmaps.py line 28: results.push after the loop
JsPush ==
    /\ prog \in {"listing", "test_gmaps"} /\ jpc = "lines" /\ lj > Len(JsLines)
    /\ jpc' = "pushed"
    /\ UNCHANGED <<prog, lst_item, lst_region, reg_line, lj, js_address, js_category,
                   lst_results, lst_unique, notListingVars>>

\* lines 292-306: scrape_google_maps appends the record of the listing
LstAppendListing ==
    /\ prog = "listing" /\ jpc = "pushed"
    /\ lst_results' = Append(lst_results,
                          GmListingCompany(ListingPool[lst_item].name, js_address,
                                           js_category, lst_region, 1))
    /\ jpc' = "listed"
    /\ UNCHANGED <<prog, lst_item, lst_region, reg_line, lj, js_address, js_category,
                   lst_unique, notListingVars>>

\* lines 654-683: scrape_cdi_pdf appends the record of the line
LstAppendRegistry ==
    /\ prog = "listing" /\ jpc = "listed"
    /\ Len(Strip(RegistryLines[reg_line])) >= MinLineLength
    /\ ~IsHeader(Strip(RegistryLines[reg_line]))
    /\ Len(NameOfLine(Strip(RegistryLines[reg_line]))) >= MinNameLength
    /\ lst_results' = Append(lst_results, CdiCompany(Strip(RegistryLines[reg_line])))
    /\ jpc' = "registered"
    /\ UNCHANGED <<prog, lst_item, lst_region, reg_line, lj, js_address, js_category,
                   lst_unique, notListingVars>>

\* line 875: unique = deduplicate(all_results)
LstDeduplicate ==
    /\ prog = "listing" /\ jpc = "registered"
    /\ lst_unique' = deduplicate(lst_results)
    /\ jpc' = "done"
    /\ UNCHANGED <<prog, lst_item, lst_region, reg_line, lj, js_address, js_category,
                   lst_results, notListingVars>>

NextListing ==
    \/ JsAddressLine
    \/ JsAddressLineBreaks
    \/ JsCategoryLine
    \/ JsOtherLine
    \/ JsPush
    \/ LstAppendListing
    \/ LstAppendRegistry
    \/ LstDeduplicate

SpecListing == InitListing /\ [][NextListing]_vars

(***************************************************************************)
(* InsuranceCompany.dedup_key (src/scraper.py:56-61) computed on two       *)
(* records whose names and cities are drawn from KeyNames and KeyCities.   *)
(***************************************************************************)
KeyNames == {<<"a","b">>, <<"a">>, <<"A","-","b">>, <<"a","_","b">>, <<"A","b"," ","c">>, << >>}

KeyCities == {<<"c">>, <<"b","c">>, <<"C",".">>, <<"b"," ","c">>, << >>}

KeyRecords == {InsuranceCompany(n, c, S_A, NoFields) : n \in KeyNames, c \in KeyCities}

InitKey ==
    /\ prog = "key"
    /\ rec_a \in KeyRecords
    /\ rec_b \in KeyRecords
    /\ key_a = << >>
    /\ key_b = << >>
    /\ kpc = "first"
    /\ DedupIdle
    /\ EnrichIdle
    /\ SfIdle
    /\ MainIdle
    /\ YelpIdle
    /\ GmapsIdle
    /\ CdiIdle
    /\ ExtractIdle
    /\ ContactIdle
    /\ ListingIdle

\* the property is read on the first record
KeyOfFirst ==
    /\ prog = "key" /\ kpc = "first"
    /\ key_a' = dedup_key(rec_a)
    /\ kpc' = "second"
    /\ UNCHANGED <<prog, rec_a, rec_b, key_b, notKeyVars>>

\* the property is read on the second record
KeyOfSecond ==
    /\ prog = "key" /\ kpc = "second"
    /\ key_b' = dedup_key(rec_b)
    /\ kpc' = "done"
    /\ UNCHANGED <<prog, rec_a, rec_b, key_a, notKeyVars>>

NextKey == KeyOfFirst \/ KeyOfSecond

SpecKey == InitKey /\ [][NextKey]_vars

(***************************************************************************)
(* Properties of dedup_key and deduplicate (checked under SpecDedup).      *)
(***************************************************************************)
DedupDone == prog = "dedup" /\ dpc = "done"

\* the indexes of the input records that have the identity key `key`
InputWithKey(key) == {i \in 1..Len(input) : dedup_key(input[i]) = key}

\* the permutations of 1..n
Perms(n) == {p \in [1..n -> 1..n] : \A a, b \in 1..n : a # b => p[a] # p[b]}

\* C1: deduplicate is idempotent: run on its own output it returns the same
\* records with the same field values (source included), and it merges nothing,
\* because no record of the output shares its identity key with another one.
C1_DedupIdempotent ==
    DedupDone =>
        /\ deduplicate(unique) = unique
        /\ \A a, b \in 1..Len(unique) :
              a # b => dedup_key(unique[a]) # dedup_key(unique[b])

\* a run in which records were merged and more than one record is returned
C1_Witness ==
    /\ DedupDone
    /\ Len(unique) >= 2
    /\ Len(unique) < Len(input)
    /\ \E k \in 1..Len(unique) : unique[k] \notin Range(input)

\* C2: no available information is lost: when some input record of a key has a
\* non-empty value for a mergeable field, the output has a record of that key
\* and every output record of that key has a non-empty value for the field.
C2_NoInformationLost ==
    DedupDone =>
        \A i \in 1..Len(input) : \A f \in Range(MergeFields) :
            input[i][f] # << >> =>
                /\ \E k \in 1..Len(unique) : dedup_key(unique[k]) = dedup_key(input[i])
                /\ \A k \in 1..Len(unique) :
                      dedup_key(unique[k]) = dedup_key(input[i]) => unique[k][f] # << >>

\* the first record of a key lacks a field that a later record of the key has
C2_Witness ==
    /\ DedupDone
    /\ \E i, j \in 1..Len(input) : \E f \in Range(MergeFields) :
          /\ i = Min(InputWithKey(dedup_key(input[j])))
          /\ i < j
          /\ input[i][f] = << >>
          /\ input[j][f] # << >>

\* C3: first-populated-wins: at every point of the loop and in the output, each
\* mergeable field of a retained record holds the value of the earliest record
\* processed so far, among those with its key, whose value is non-empty (and is
\* empty when there is none); so a value once set is never overwritten.
C3_FirstPopulatedWins ==
    prog = "dedup" =>
        /\ \A k \in 1..Len(seen) : \A f \in Range(MergeFields) :
              LET rec == results[seen[k]]
                  have == {i \in InputWithKey(dedup_key(rec)) :
                              i < di /\ input[i][f] # << >>}
              IN  rec[f] = IF have = {} THEN << >> ELSE input[Min(have)][f]
        /\ dpc = "done" =>
              \A k \in 1..Len(unique) : \A f \in Range(MergeFields) :
                  LET have == {i \in InputWithKey(dedup_key(unique[k])) :
                                  input[i][f] # << >>}
                  IN  unique[k][f] = IF have = {} THEN << >> ELSE input[Min(have)][f]

\* two records of one key carry different non-empty addresses
C3_Witness ==
    /\ DedupDone
    /\ \E i, j \in 1..Len(input) :
          /\ i < j
          /\ dedup_key(input[i]) = dedup_key(input[j])
          /\ input[i].address # << >>
          /\ input[j].address # << >>
          /\ input[i].address # input[j].address
          /\ \E k \in 1..Len(unique) : unique[k].address = input[i].address

\* C4: provenance: after deduplicate the `source` of each returned record, read
\* as a ", "-joined list, holds every distinct source label of the input records
\* of its key exactly once, a label that is a substring of another one included.
C4_SourceListsEveryLabelOnce ==
    DedupDone =>
        \A k \in 1..Len(unique) :
            LET labels == SplitCommaSpace(unique[k].source)
            IN  /\ Range(labels) =
                      {input[i].source : i \in InputWithKey(dedup_key(unique[k]))}
                /\ \A a, b \in 1..Len(labels) : a # b => labels[a] # labels[b]

\* C5: the end-to-end scenario: {Acme Insurance, Oakland, A, 555-1111} followed by
\* {ACME INSURANCE, Oakland, B, http://acme.test} gives exactly one record, with
\* source "A, B", phone "555-1111" and website "http://acme.test".
C5_EndToEndScenario ==
    (DedupDone /\ input = <<AcmeA, AcmeB>>) =>
        /\ Len(unique) = 1
        /\ unique[1].source = S_A_B
        /\ unique[1].phone = S_Phone1
        /\ unique[1].website = S_Web1

\* deduplicate has returned on the two records of the scenario
C5_Witness == DedupDone /\ input = <<AcmeA, AcmeB>>

\* the records the model holds at this point
AllRecords == Range(results) \cup Range(input) \cup Range(unique)

\* C6: the identity key depends on (name, city) only: two records that agree on
\* name and city have the same key whatever their other fields hold, and the
\* loop, which computes the key of every record it visits, changes a record only
\* by merging into a retained one, never its name or city.
C6_KeyOfNameAndCityOnly ==
    prog = "dedup" =>
        /\ \A a, b \in AllRecords :
              (a.name = b.name /\ a.city = b.city) => dedup_key(a) = dedup_key(b)
        /\ \A i \in 1..Len(results) :
              /\ results[i].name = input[i].name
              /\ results[i].city = input[i].city
              /\ results[i] # input[i] =>
                    \E j \in 1..(di - 1) :
                        i < j /\ dedup_key(input[j]) = dedup_key(input[i])

\* two visited records agree on name and city and differ in address and phone
C6_Witness ==
    /\ DedupDone
    /\ \E a, b \in Range(input) :
          /\ a.name = b.name /\ a.city = b.city
          /\ a.address # b.address /\ a.phone # b.phone /\ a.source # b.source

\* the output of deduplicate on the input reordered by the permutation p
DedupPermuted(p) == deduplicate([k \in 1..Len(input) |-> input[p[k]]])

KeysOf(recs) == {dedup_key(recs[k]) : k \in 1..Len(recs)}

\* C7 as stated: for any two orderings of the same records the outputs have the
\* same identity keys and, for each key, the same merged field values.
C7_OrderIndependentValues ==
    DedupDone =>
        \A p \in Perms(Len(input)) :
            LET other == DedupPermuted(p)
            IN  /\ KeysOf(other) = KeysOf(unique)
                /\ \A a \in 1..Len(unique) : \A b \in 1..Len(other) :
                      dedup_key(unique[a]) = dedup_key(other[b]) =>
                          \A f \in Range(MergeFields) : unique[a][f] = other[b][f]

\* C7 amended: for any two orderings of the same records the outputs have the
\* same identity keys and, for each key, the same mergeable fields are non-empty
\* (which value a field holds depends on the order).
C7_OrderIndependentKeysAndPresence ==
    DedupDone =>
        \A p \in Perms(Len(input)) :
            LET other == DedupPermuted(p)
            IN  /\ KeysOf(other) = KeysOf(unique)
                /\ Len(other) = Len(unique)
                /\ \A a \in 1..Len(unique) : \A b \in 1..Len(other) :
                      dedup_key(unique[a]) = dedup_key(other[b]) =>
                          \A f \in Range(MergeFields) :
                              (unique[a][f] = << >>) <=> (other[b][f] = << >>)

\* a reordering of the input changes a merged value
C7_Witness ==
    /\ DedupDone
    /\ \E p \in Perms(Len(input)) :
          \E a \in 1..Len(unique) : \E b \in 1..Len(DedupPermuted(p)) :
              /\ dedup_key(unique[a]) = dedup_key(DedupPermuted(p)[b])
              /\ unique[a].address # DedupPermuted(p)[b].address

(***************************************************************************)
(* Properties of the enrichment passes (checked under SpecEnrich).         *)
(***************************************************************************)
EnrichDone == prog = "scraper" /\ epc = "done"

\* the request for companies[i] raised or returned a status other than 200
FetchFailed(i) ==
    \/ outcome[i].kind = "error"
    \/ outcome[i].kind = "http" /\ outcome[i].status_code # 200

\* the request for companies[i] returned 200
FetchOk(i) == outcome[i].kind = "http" /\ outcome[i].status_code = 200

\* the indexes of the eligible records of the list handed to enrich_from_websites
EligibleIndexes == {i \in 1..Len(before) : Eligible(before[i])}

\* C8: enrichment never overwrites existing data: in either enrichment pass, at
\* every point, a record whose email (description) was non-empty when the pass
\* started still has that email (description), whatever the requests returned.
C8_NeverOverwritesExisting ==
    /\ prog = "scraper" =>
          \A i \in 1..Len(companies) :
              /\ before[i].email # << >> => companies[i].email = before[i].email
              /\ before[i].description # << >> =>
                    companies[i].description = before[i].description
    /\ prog = "enrich_sf" =>
          \A i \in 1..Len(all_rows) :
              /\ rows_before[i].email # << >> => all_rows[i].email = rows_before[i].email
              /\ rows_before[i].description # << >> =>
                    all_rows[i].description = rows_before[i].description

\* a 200 page that shows another usable e-mail and a meta description was
\* processed for a record that already had an e-mail and a description
C8_Witness ==
    /\ EnrichDone
    /\ \E i \in 1..Len(companies) :
          /\ FetchOk(i)
          /\ before[i].email # << >>
          /\ before[i].description # << >>
          /\ FirstGoodEmail(outcome[i].emails) \notin {<< >>, before[i].email}
          /\ outcome[i].meta_present
          /\ outcome[i].content \notin {<< >>, before[i].description}

\* C9: the global cap: with N eligible records and a cap K < N, when
\* enrich_from_websites returns exactly K requests were attempted, whatever they
\* returned, and the N-K eligible records left were neither requested nor changed.
C9_ExactlyCapRequests ==
    (EnrichDone /\ Cardinality(EligibleIndexes) > EnrichCap) =>
        /\ Len(fetched) = EnrichCap
        /\ Cardinality(EligibleIndexes \ Range(fetched)) =
              Cardinality(EligibleIndexes) - EnrichCap
        /\ \A i \in EligibleIndexes \ Range(fetched) : companies[i] = before[i]

\* C10: failure handling: a record whose request raised or returned a non-200
\* status keeps every field, no record is requested twice, and the loop goes on
\* to the next record: the failure neither ends the loop nor counts towards the
\* cap, so every later eligible record is requested unless the cap is reached.
C10_FailureSkipsToNextRecord ==
    prog = "scraper" =>
        /\ \A a, b \in 1..Len(fetched) : a < b => fetched[a] < fetched[b]
        /\ \A i \in 1..Len(companies) :
              FetchFailed(i) =>
                  /\ companies[i] = before[i]
                  /\ ei > i
                  /\ (ei = i + 1 /\ i < Len(companies)) => epc = "loop"
                  /\ epc = "done" =>
                        \A j \in EligibleIndexes :
                            j > i => (j \in Range(fetched) \/ enriched >= EnrichCap)

\* a raised request and a non-200 response were each followed by a request for a
\* later record
C10_Witness ==
    /\ EnrichDone
    /\ \E i, j, k \in 1..Len(companies) :
          /\ i < j /\ j < k
          /\ outcome[i].kind = "error"
          /\ outcome[j].kind = "http" /\ outcome[j].status_code # 200
          /\ outcome[j].emails # << >>
          /\ before[j].email = << >>
          /\ FetchOk(k)

\* C11: politeness ordering: between any two successive website requests of
\* enrich_from_websites a polite_sleep is executed, whatever the earlier request
\* returned: a request that is not the first one is issued only after a
\* polite_sleep ran since the request before it.
C11_SleepBetweenFetches ==
    [][(prog = "scraper" /\ fetched # << >> /\ Len(fetched') > Len(fetched))
          => slept]_vars

(***************************************************************************)
(* Properties of main (checked under SpecMain).                            *)
(***************************************************************************)
\* main has returned or has ended with an uncaught exception
MainEnded == prog = "main" /\ mpc \in {"done", "raised"}

\* the connectors that were called, in call order
RanConnectors == SelectSeq(ran, LAMBDA x : x \in Range(Connectors))

\* the place of a connector in the order of main's `if` statements
ConnectorIndex(c) == CHOOSE k \in 1..Len(Connectors) : Connectors[k] = c

\* the position of the first call of a stage in the history
CallPos(x) == CHOOSE k \in 1..Len(ran) : ran[k] = x /\ \A j \in 1..(k - 1) : ran[j] # x

\* C12: connector failure isolation: whatever happens to a requested connector,
\* an exception while it starts its browser session included, when main ends
\* every requested connector has been run, and so have deduplication, the
\* enrichment if it was requested, and the save step.
C12_ConnectorFailureIsolated ==
    MainEnded =>
        /\ \A k \in 1..Len(Connectors) :
              InSources(Connectors[k]) => Connectors[k] \in Range(ran)
        /\ "dedup" \in Range(ran)
        /\ EnrichRequested => "enrich" \in Range(ran)
        /\ "save" \in Range(ran)

\* C13: source selection: a connector is called only if its identifier is in the
\* requested list, at most once, and the calls follow the fixed order gmaps,
\* yelp, yellowpages, cdi whatever the order of the request; once main is past
\* its connectors every requested connector has been called, and exactly gmaps
\* and cdi when no identifier was given; deduplicate is called after the
\* connectors and save_results after deduplicate, and a run of main that returns
\* has called both.
C13_SourceSelection ==
    prog = "main" =>
        /\ \A k \in 1..Len(RanConnectors) : InSources(RanConnectors[k])
        /\ \A a, b \in 1..Len(RanConnectors) :
              a < b => ConnectorIndex(RanConnectors[a]) < ConnectorIndex(RanConnectors[b])
        /\ mpc \in {"dedup", "enrich", "save", "done"} =>
              /\ \A k \in 1..Len(Connectors) :
                    InSources(Connectors[k]) => Connectors[k] \in Range(RanConnectors)
              /\ argv = << >> => RanConnectors = <<"gmaps", "cdi">>
        /\ "dedup" \in Range(ran) =>
              /\ CallPos("dedup") = Len(RanConnectors) + 1
              /\ \A k \in 1..Len(ran) : k # CallPos("dedup") => ran[k] # "dedup"
        /\ "save" \in Range(ran) =>
              /\ "dedup" \in Range(ran)
              /\ CallPos("dedup") < CallPos("save")
              /\ CallPos("save") = Len(ran)
        /\ mpc = "done" => "save" \in Range(ran)

\* three connectors requested in the reverse of the fixed order all ran
C13_Witness ==
    /\ prog = "main" /\ mpc = "done"
    /\ argv = <<"cdi", "yelp", "gmaps">>
    /\ ran = <<"gmaps", "yelp", "cdi", "dedup", "save">>
    /\ Len(saved) = 2

\* C14: the enrichment toggle: enrich_from_websites is called if and only if
\* "enrich" is in the requested list or no identifier was given; it is called
\* after deduplicate and before save_results, and the list it is handed is the
\* output of deduplicate on the raw list, never the raw list itself.
C14_EnrichToggle ==
    prog = "main" =>
        /\ "enrich" \in Range(ran) =>
              /\ EnrichRequested
              /\ "dedup" \in Range(ran)
              /\ CallPos("dedup") < CallPos("enrich")
              /\ enrich_arg = deduplicate(all_results)
              /\ \A k \in 1..Len(ran) : k # CallPos("enrich") => ran[k] # "enrich"
        /\ "enrich" \notin Range(ran) => enrich_arg = << >>
        /\ mpc \in {"save", "done"} => (EnrichRequested <=> "enrich" \in Range(ran))
        /\ ("save" \in Range(ran) /\ "enrich" \in Range(ran)) =>
              CallPos("enrich") < CallPos("save")

\* the enricher ran on a list shorter than the raw one and filled in a field
C14_Witness ==
    /\ prog = "main" /\ mpc = "done"
    /\ "enrich" \in Range(ran)
    /\ Len(enrich_arg) < Len(all_results)
    /\ saved # enrich_arg

(***************************************************************************)
(* Properties of _parse_yelp_html (checked under SpecYelp).                *)
(***************************************************************************)
\* the records strategy (a) yields on the page: those of every ld+json tag
RECURSIVE StrategyAYield(_)
StrategyAYield(k) ==
    IF k > Len(ld_tags) THEN << >>
    ELSE LdBlock(LdPool[ld_tags[k]]).names \o StrategyAYield(k + 1)

\* C15: strategy order: strategy (a) is tried first; when it yields at least one
\* record the function returns exactly the records of (a) and strategy (b) is
\* not run; (b) is run only when (a) yielded nothing, and the list never holds
\* records of both strategies.
C15_StrategyOrder ==
    prog = "yelp" =>
        /\ \A a, b \in 1..Len(origin) : origin[a] = origin[b]
        /\ s2_run => (ti > Len(ld_tags) /\ StrategyAYield(1) = << >>)
        /\ (ypc = "returned" /\ StrategyAYield(1) # << >>) =>
              /\ parsed = StrategyAYield(1)
              /\ \A k \in 1..Len(origin) : origin[k] = "a"
              /\ ~s2_run
        /\ (ypc = "returned" /\ StrategyAYield(1) = << >>) => s2_run

\* strategy (a) yielded records on a page whose page data holds records too
C15_Witness ==
    /\ prog = "yelp" /\ ypc = "returned"
    /\ Len(ld_tags) = 2
    /\ Len(parsed) >= 2
    /\ nd_tag # 0 /\ NdBlock(NdPool[nd_tag]).names # << >>

\* C16: malformed payloads are not fatal at the parser: whatever the script
\* blocks of the page hold (no text, unparsable JSON, JSON of an unexpected
\* shape such as a top-level value or list items that are not objects),
\* _parse_yelp_html returns a list and no exception leaves it.
C16_ParserNeverRaises ==
    prog = "yelp" => (ypc # "raised" /\ yexc = "none")

(***************************************************************************)
(* Properties of scrape_google_maps (checked under SpecGmaps).             *)
(***************************************************************************)
\* the (region, query) pairs in the order of the two loops
RECURSIVE PairsFrom(_, _)
PairsFrom(g, q) ==
    IF g > Len(GMAPS_REGIONS) THEN << >>
    ELSE <<<<g, q>>>> \o PairsFrom(GmNextPair(g, q)[1], GmNextPair(g, q)[2])

AllPairs == PairsFrom(1, 1)

\* C17: scroll before extract: every batch extraction happens after a scroll
\* that left the visible item count unchanged (the count after the last scroll
\* equals the count after the one before); none happens while the count was
\* still growing on the last scroll.
C17_ExtractOnlyWhenStable ==
    prog = "gmaps" =>
        /\ gpc = "extract" => ~grew
        /\ \A k \in 1..Len(gm_outcomes) :
              gm_outcomes[k].kind = "extracted" => gm_outcomes[k].stable

\* C18: a failed query is skipped, not fatal: a pair whose feed timed out or
\* whose search raised appended no record; the pairs are started in the order
\* region outer loop, query inner loop, each at most once, and when the
\* connector returns every pair has been started exactly once.
C18_FailedQuerySkipped ==
    prog = "gmaps" =>
        /\ Len(attempts) <= Len(AllPairs)
        /\ \A k \in 1..Len(attempts) : attempts[k] = AllPairs[k]
        /\ Len(gm_outcomes) \in {Len(attempts), Len(attempts) - 1}
        /\ \A k \in 1..Len(gm_outcomes) :
              gm_outcomes[k].kind # "extracted" =>
                  \A r \in 1..Len(gm_results) :
                      gm_results[r].source_url #
                          search_term(attempts[k][1], attempts[k][2])
        /\ gpc = "done" => (attempts = AllPairs /\ Len(gm_outcomes) = Len(AllPairs))

\* a timeout, a raised search and a raised scroll were each followed by the
\* next pairs, the last of which appended a record
C18_Witness ==
    /\ prog = "gmaps" /\ gpc = "done"
    /\ gm_outcomes[1].kind = "timeout"
    /\ gm_outcomes[2].kind = "error"
    /\ gm_outcomes[3].kind = "error"
    /\ gm_outcomes[4].kind = "extracted"
    /\ Len(gm_results) = 1

(***************************************************************************)
(* Properties of scrape_cdi_pdf (checked under SpecCdi).                   *)
(***************************************************************************)
\* the line is at least the minimum length and holds no header phrase
IsEntityLine(line) == Len(Strip(line)) >= MinLineLength /\ ~IsHeader(Strip(line))

\* the number of such lines on the pages from the k-th on
RECURSIVE EntityLines(_)
EntityLines(k) ==
    IF k > Len(pdf_pages) THEN 0
    ELSE Cardinality({n \in 1..Len(PagePool[pdf_pages[k]]) :
                         IsEntityLine(PagePool[pdf_pages[k]][n])})
         + EntityLines(k + 1)

\* the text of the pages was parsed and the connector has returned
CdiParsed == prog = "cdi" /\ cpc = "done" /\ lines # << >>

\* C19: one entity per non-header line: when the document has been parsed the
\* number of records appended equals the number of lines, over all pages, that
\* are at least the minimum length and hold no header phrase, the last line of a
\* page and the first line of the next page each counting.
C19_OneEntityPerLine ==
    CdiParsed => Len(cdi_results) = EntityLines(1)

(***************************************************************************)
(* Properties of extract_emails (checked under SpecExtract).               *)
(***************************************************************************)
\* a call of extract_emails has returned
ExReturned == prog = "extract" /\ xpc = "returned"

\* the lowercased address contains no member of the junk denylist
NoJunkIn(em) == \A k \in 1..Len(ExtractJunk) : ~IsSubstr(ExtractJunk[k], Lower(em))

\* the matches that satisfy K, in first-seen order, an address that equals an
\* earlier one of them but for case left out
FirstSeen(rw, K(_)) ==
    LET kept == {k \in 1..Len(rw) :
                    /\ K(rw[k])
                    /\ \A j \in 1..(k - 1) : K(rw[j]) => Lower(rw[j]) # Lower(rw[k])}
        nth(n) == CHOOSE k \in kept : Cardinality({j \in kept : j < k}) = n - 1
    IN  [n \in 1..Cardinality(kept) |-> rw[nth(n)]]

\* two calls on the same text return equal sequences, the empty text gives the
\* empty list, and the example text gives only sales@realbiz.com
ExFreshEmptyExample ==
    /\ calls >= 2 => em_result = first_result
    /\ html_tokens = << >> => em_result = << >>
    /\ html_tokens = <<1>> => em_result = <<S_SalesRealbiz>>

DroppedFromResult(em) == \A i \in 1..Len(em_result) : Lower(em_result[i]) # Lower(em)

\* C21: a non-junk matched address is dropped if and only if it exceeds 80
\* characters: one of exactly 80 characters is kept and one of 81 is dropped.
C21_DroppedIffExceedsLimit ==
    ExReturned =>
        \A k \in 1..Len(em_raw) :
            NoJunkIn(em_raw[k]) =>
                (DroppedFromResult(em_raw[k]) <=> Len(em_raw[k]) > EmailLengthLimit)

(***************************************************************************)
(* enrich_from_websites against extract_emails (checked under SpecEnrich). *)
(***************************************************************************)
\* the first element of extract_emails on the matches of a body, "" if none
FirstExtracted(matches) ==
    IF extract_emails(matches) = << >> THEN << >> ELSE extract_emails(matches)[1]

\* C22: on a successful fetch for a record whose email was empty, the email that
\* enrich_from_websites leaves on the record is the first element of
\* extract_emails(page body), and it is empty exactly when that list is empty.
C22_EnricherUsesExtractEmails ==
    prog = "scraper" =>
        \A i \in 1..Len(companies) :
            (/\ outcome[i].kind = "http"
             /\ outcome[i].status_code = 200
             /\ before[i].email = << >>)
            => companies[i].email = FirstExtracted(outcome[i].emails)

(***************************************************************************)
(* The shape of deduplicate's output (checked under SpecDedup).            *)
(***************************************************************************)
\* the fields the merge does not touch
KeptFields == {"name", "city", "state", "source_url"}

\* the position in the input of the first record with the key of unique[k]
FirstWithKeyOf(k) == Min(InputWithKey(dedup_key(unique[k])))

\* C23: the output holds exactly one record per distinct identity key of the
\* input, so it is no longer than the input and its keys are pairwise distinct;
\* the record of a key is the first input record with the key, with its name,
\* city, state and source_url unchanged; a record whose key occurs once is
\* returned unmodified; the output is ordered by first occurrence of the keys.
C23_RetainedRecordAndShape ==
    DedupDone =>
        /\ Len(unique) = Cardinality(KeysOf(input))
        /\ KeysOf(unique) = KeysOf(input)
        /\ Len(unique) <= Len(input)
        /\ \A a, b \in 1..Len(unique) :
              a # b => dedup_key(unique[a]) # dedup_key(unique[b])
        /\ \A k \in 1..Len(unique) :
              /\ seen[k] = FirstWithKeyOf(k)
              /\ unique[k] = results[seen[k]]
              /\ \A f \in KeptFields : unique[k][f] = input[FirstWithKeyOf(k)][f]
              /\ Cardinality(InputWithKey(dedup_key(unique[k]))) = 1
                    => unique[k] = input[FirstWithKeyOf(k)]
        /\ \A a, b \in 1..Len(unique) : a < b => FirstWithKeyOf(a) < FirstWithKeyOf(b)

\* a record of another key stands between two records of one key, and the later
\* of the two differs from the first in name
C23_Witness ==
    /\ DedupDone
    /\ \E i, j, k \in 1..Len(input) :
          /\ i < j /\ j < k
          /\ dedup_key(input[i]) = dedup_key(input[k])
          /\ dedup_key(input[i]) # dedup_key(input[j])
          /\ input[i].name # input[k].name
          /\ unique[1] # input[i]
          /\ unique[2] = input[j]

(***************************************************************************)
(* The frame of enrich_from_websites (checked under SpecEnrich).           *)
(***************************************************************************)
\* the website of the record is empty or does not start with "http"
NoUsableWebsite(i) == before[i].website = << >> \/ ~StartsWith(before[i].website, S_http)

\* C24: enrich_from_websites changes no field other than email and description,
\* never adds, removes or reorders records, sets no description longer than 500
\* characters, and leaves a record whose website is empty or does not start with
\* "http" unchanged and unrequested.
C24_EnrichFrame ==
    prog = "scraper" =>
        /\ Len(companies) = Len(before)
        /\ \A i \in 1..Len(companies) :
              /\ \A f \in FieldNames \ {"email", "description"} :
                    companies[i][f] = before[i][f]
              /\ companies[i].description # before[i].description
                    => Len(companies[i].description) <= DescriptionLimit
              /\ NoUsableWebsite(i) =>
                    /\ companies[i] = before[i]
                    /\ i \notin Range(fetched)
                    /\ outcome[i] = NoResponse

\* a meta description longer than 500 characters was set on one record, and a
\* record whose website lacks the scheme was passed over
C24_Witness ==
    /\ EnrichDone
    /\ \E i, j \in 1..Len(companies) :
          /\ FetchOk(i)
          /\ Len(outcome[i].content) > DescriptionLimit
          /\ companies[i].description # before[i].description
          /\ before[j].website # << >>
          /\ NoUsableWebsite(j)

(***************************************************************************)
(* Properties of scrape_website_for_email (checked under SpecContact).     *)
(***************************************************************************)
\* the response is a page with status 200
Succeeded(resp) == resp.kind = "http" /\ resp.status_code = 200

\* the e-mails of a page with status 200, none for any other response
EmailsOn(resp) == IF Succeeded(resp) THEN extract_emails(resp.emails) ELSE << >>

\* /contact, /contact-us, /about, /about-us, /contactus
FixedSuffixOrder ==
    <<S_SlashContact, S_SlashContactDash, S_SlashAbout, S_SlashAboutDash, S_SlashContactus>>

SwReturned == prog = "contact" /\ sw_pc = "returned"

\* C25: contact pages are requested only after the main page answered with
\* success and yielded no e-mail; they are requested in the order /contact,
\* /contact-us, /about, /about-us, /contactus against the host of the fetched
\* page; the first page that yields an e-mail ends the lookup with that e-mail;
\* a contact page that errors or answers without success is passed over and the
\* later ones are still requested; when the main request fails or no page yields
\* an e-mail the result is the empty string.
C25_ContactPageFallback ==
    prog = "contact" =>
        /\ Len(sw_gets) >= 2 =>
              Succeeded(sw_gets[1].resp) /\ EmailsOn(sw_gets[1].resp) = << >>
        /\ Len(sw_gets) <= 1 + Len(FixedSuffixOrder)
        /\ \A k \in 2..Len(sw_gets) :
              /\ sw_gets[k].url = BaseOf(sw_gets[1].final) \o FixedSuffixOrder[k - 1]
              /\ EmailsOn(sw_gets[k].resp) # << >> =>
                    /\ k = Len(sw_gets)
                    /\ sw_pc = "returned"
        /\ SwReturned =>
              /\ sw_gets = << >> => sw_email = << >>
              /\ sw_gets # << >> =>
                    sw_email = IF EmailsOn(sw_gets[Len(sw_gets)].resp) = << >> THEN << >>
                               ELSE EmailsOn(sw_gets[Len(sw_gets)].resp)[1]
              /\ (sw_gets # << >> /\ ~Succeeded(sw_gets[1].resp)) => Len(sw_gets) = 1
              /\ (sw_gets # << >> /\ Succeeded(sw_gets[1].resp) /\ sw_email = << >>) =>
                    Len(sw_gets) = 1 + Len(FixedSuffixOrder)

\* after a redirect of the main page, /contact raised, /contact-us answered
\* without success and /about yielded the e-mail that was returned
C25_Witness ==
    /\ SwReturned
    /\ Len(sw_gets) = 4
    /\ sw_gets[1].final # sw_gets[1].url
    /\ sw_gets[2].resp.kind = "error"
    /\ sw_gets[3].resp.kind = "http" /\ sw_gets[3].resp.status_code # 200
    /\ sw_email # << >>
    /\ sw_gets[4].url = <<"h","t","t","p","s",":","/","/","w","w","w",".","a","c","m","e",".","t","e","s","t","/","a","b","o","u","t">>

(***************************************************************************)
(* Properties of the listing extraction (checked under SpecListing).       *)
(***************************************************************************)
\* the positions of the address-shaped lines of the listing
ShapedLines == {k \in 1..Len(JsLines) : AddressShaped(JsLines[k])}

\* C26: for a listing whose text holds several address-shaped lines, the address
\* extracted is the first of them in line order.
C26_FirstAddressLine ==
    (prog \in {"listing", "test_gmaps"} /\ jpc # "lines" /\ Cardinality(ShapedLines) >= 2)
        => js_address = JsLines[Min(ShapedLines)]

(***************************************************************************)
(* Registry records against map-listing records (checked under            *)
(* SpecListing).                                                           *)
(***************************************************************************)
\* the case-folded text with only its letters and digits
Normalized(s) == StripNonAlnum(Lower(s))

\* C28: every record made by the map-listing connector has a city that is
\* non-empty after normalization, every record made by the registry connector
\* has an empty city, and deduplicate returns the two records apart, unchanged,
\* even when their names are identical.
C28_RegistryNeverMergesWithListing ==
    prog = "listing" =>
        /\ \A k \in 1..Len(lst_results) :
              /\ lst_results[k].source = S_GoogleMaps
                    => Normalized(lst_results[k].city) # << >>
              /\ lst_results[k].source = S_CDI => lst_results[k].city = << >>
        /\ jpc = "done" =>
              /\ Len(lst_unique) = 2
              /\ lst_unique = lst_results
              /\ lst_unique[1].source = S_GoogleMaps
              /\ lst_unique[2].source = S_CDI

\* deduplicate has returned on a listing and a registry line of the same name,
\* the listing with an address in which no city is found
C28_Witness ==
    /\ prog = "listing"
    /\ jpc = "done"
    /\ Normalized(lst_results[1].name) = Normalized(lst_results[2].name)
    /\ lst_results[1].address # << >>
    /\ extract_city_from_address(lst_results[1].address) = << >>

(***************************************************************************)
(* Properties of dedup_key on two records (checked under SpecKey).         *)
(***************************************************************************)
KeysComputed == prog = "key" /\ kpc = "done"

\* C27: two records have the same dedup_key if and only if their case-folded,
\* alphanumeric-only names are equal and their case-folded, alphanumeric-only
\* cities are equal; name "ab" with city "c" and name "a" with city "bc" have
\* different keys.
C27_KeyEqualityExactOnPair ==
    KeysComputed =>
        /\ key_a = key_b <=>
              /\ Normalized(rec_a.name) = Normalized(rec_b.name)
              /\ Normalized(rec_a.city) = Normalized(rec_b.city)
        /\ (/\ rec_a.name = <<"a", "b">> /\ rec_a.city = <<"c">>
            /\ rec_b.name = <<"a">> /\ rec_b.city = <<"b", "c">>) => key_a # key_b

\* the keys of name "ab" with city "c" and of name "a" with city "bc" were computed
C27_Witness ==
    /\ KeysComputed
    /\ rec_a.name = <<"a", "b">> /\ rec_a.city = <<"c">>
    /\ rec_b.name = <<"a">> /\ rec_b.city = <<"b", "c">>
    /\ key_a = <<"a", "b", "_", "c">>

====
